---- MODULE Spec2Model ----
(***************************************************************************)
(* Model of the hearings clean-up tool (congress-hearings/                 *)
(* cleanup_hearings.py), of the checkpointed hearings fetcher              *)
(* (congress-hearings/fetch_congressional_hearings.py) and of the          *)
(* threaded votes fetcher (congress-votes/fetch_votes.py).                 *)
(*                                                                         *)
(* A hearing is a Python dict: here a function whose DOMAIN is the set of  *)
(* fields that are present.  A value is null, a string, an integer or a    *)
(* list; every value is a record of the same shape so that values of       *)
(* different Python types can be compared (and are then different).        *)
(* A string is the sequence of its characters, so that str.strip() and     *)
(* the comparison of strings are computed and not assumed.                 *)
(***************************************************************************)
EXTENDS Integers, Sequences, FiniteSets, TLC

VARIABLES
    \* merge_hearings called on its own
    primary, secondary, merged, mpc,
    \* deduplicate_hearings, one loop iteration at a time
    hearings, seen, duplicates_found, deduped, dpc,
    \* one run of the clean-up tool (main of cleanup_hearings.py)
    \* input_shape and merge_shape: what kind of file each path leads to
    args, input_file, merge_file, input_shape, merge_shape,
    main_hearings, updated_count, output_file, cpc,
    \* runs of the hearings fetcher (main of fetch_congressional_hearings.py)
    \* over the files they share; source is what the API holds per partition
    source, resume, all_hearings, completed, part, fpc,
    checkpoint_file, yaml_output,
    \* history: interruptions so far, checkpoints saved by the current run,
    \* and whether the run last interrupted had saved one
    crashes, saves_done, interrupted_after_save,
    \* history: fetches of each partition by the current run, the completed
    \* markers the current run loaded, what the interrupted run held in memory
    requests, loaded, held,
    \* one run of the votes fetcher (main of fetch_votes.py): the worker
    \* threads of the executor of the current batch (a House congress or a
    \* Senate session) and the main thread
    future, consumed, batch, all_votes, processed, last_save_count,
    vpc, vret, votes_sorted, total_votes, votes_output,
    \* the requests of one partition's fetch in the hearings fetcher:
    \* fetch_all_paginated (offset, all_items), fetch_with_retry (attempt,
    \* data; caller is the call it serves) and the loop over the meetings
    \* (meeting_i, fetched); history: the responses of the current call and
    \* the partitions whose listing had a call that gave up
    offset, attempt, data, caller, all_items, meeting_i, fetched,
    responses, listing_failed,
    \* the discovery of the Senate vote numbers in fetch_senate_votes_live;
    \* last_vote is the number of the last vote the Senate site holds
    last_vote, max_vote, low, high, vote_num, submitted, ppc

mergeVars == <<primary, secondary, merged, mpc>>
dedupVars == <<hearings, seen, duplicates_found, deduped, dpc>>
cleanupVars == <<args, input_file, merge_file, input_shape, merge_shape,
                 main_hearings, updated_count, output_file, cpc>>
fetchVars == <<source, resume, all_hearings, completed, part, fpc,
               checkpoint_file, yaml_output,
               crashes, saves_done, interrupted_after_save,
               requests, loaded, held>>
votesVars == <<future, consumed, batch, all_votes, processed, last_save_count,
               vpc, vret, votes_sorted, total_votes, votes_output>>
retryVars == <<offset, attempt, data, caller, all_items, meeting_i, fetched,
               responses, listing_failed>>
probeVars == <<last_vote, max_vote, low, high, vote_num, submitted, ppc>>
vars == <<mergeVars, dedupVars, cleanupVars, fetchVars, votesVars,
          retryVars, probeVars>>

----------------------------------------------------------------------------
(* Python values *)

Null == [t |-> "null", n |-> 0, v |-> <<>>]
Str(cs) == [t |-> "str", n |-> 0, v |-> cs]
Num(i) == [t |-> "int", n |-> i, v |-> <<>>]
List(xs) == [t |-> "list", n |-> 0, v |-> xs]

\* marks a field left out of a dict while a hearing is built; never a value
Absent == [t |-> "absent", n |-> 0, v |-> <<>>]

IsNone(x) == x.t = "null"
IsList(x) == x.t = "list"
IsStr(x) == x.t = "str"

\* bool(x) for the value kinds above
Truthy(x) ==
    CASE x.t = "null" -> FALSE
      [] x.t = "str" -> x.v # <<>>
      [] x.t = "list" -> x.v # <<>>
      [] x.t = "int" -> x.n # 0

Whitespace == {" ", "\t", "\n", "\r"}

RECURSIVE LStrip(_)
LStrip(cs) ==
    IF cs # <<>> /\ Head(cs) \in Whitespace THEN LStrip(Tail(cs)) ELSE cs

RECURSIVE RStrip(_)
RStrip(cs) ==
    IF cs # <<>> /\ cs[Len(cs)] \in Whitespace
    THEN RStrip(SubSeq(cs, 1, Len(cs) - 1))
    ELSE cs

\* str.strip()
Strip(cs) == RStrip(LStrip(cs))

\* dict.get(key, default)
Get(h, f, default) == IF f \in DOMAIN h THEN h[f] ELSE default

\* a or b
Or(a, b) == IF Truthy(a) THEN a ELSE b

\* the dict holding exactly the fields of r that are not Absent
Dict(r) == [f \in {g \in DOMAIN r : r[g] # Absent} |-> r[f]]

EmptyDict == [f \in {} |-> Null]

----------------------------------------------------------------------------
(* cleanup_hearings.py: the scorer, the key and the merger *)

CountsMutNoStrip(x) ==
    /\ ~IsNone(x)
    /\ IsList(x) => Len(x.v) > 0
    /\ IsStr(x) => x.v # <<>>

\* the test of one value inside count_non_null_fields
Counts(x) ==
    /\ ~IsNone(x)
    /\ IsList(x) => Len(x.v) > 0
    /\ IsStr(x) => Strip(x.v) # <<>>

count_non_null_fields(hearing) ==
    Cardinality({f \in DOMAIN hearing : Counts(hearing[f])})

get_hearing_keyMutNoSub(hearing) ==
    << Get(hearing, "title", Str(<<>>)),
       Get(hearing, "date", Str(<<>>)),
       Get(hearing, "congress", Num(0)),
       Get(hearing, "chamber", Str(<<>>)),
       Get(hearing, "committee", Str(<<>>)) >>

get_hearing_key(hearing) ==
    << Get(hearing, "title", Str(<<>>)),
       Get(hearing, "date", Str(<<>>)),
       Get(hearing, "congress", Num(0)),
       Get(hearing, "chamber", Str(<<>>)),
       Or(Get(hearing, "committee", Str(<<>>)),
          Get(hearing, "subcommittee", Str(<<>>))) >>

\* one iteration of the loop of merge_hearings: field f of secondary
MergeField(m, f, value) ==
    IF f \notin DOMAIN m \/ IsNone(m[f])
    THEN value
    ELSE IF IsList(value) /\ IsList(m[f])
         THEN (IF Len(value.v) > Len(m[f].v) THEN value ELSE m[f])
         ELSE m[f]   \* the last elif needs merged[key] None: never taken

\* a merger that joins two lists instead of keeping the longer one
merge_hearingsMutConcat(p, s) ==
    [f \in DOMAIN p \cup DOMAIN s |->
        IF f \notin DOMAIN s THEN p[f]
        ELSE IF f \in DOMAIN p /\ IsList(p[f]) /\ IsList(s[f])
             THEN List(p[f].v \o s[f].v)
             ELSE MergeField(p, f, s[f])]

\* a merger in which a populated secondary value replaces the primary's
merge_hearingsMutSecondaryWins(p, s) ==
    [f \in DOMAIN p \cup DOMAIN s |->
        IF f \notin DOMAIN s THEN p[f]
        ELSE IF f \in DOMAIN p /\ IsNone(s[f]) THEN p[f] ELSE s[f]]

\* a merger that takes the secondary's list on equal lengths too
merge_hearingsMutTie(p, s) ==
    [f \in DOMAIN p \cup DOMAIN s |->
        IF f \notin DOMAIN s THEN p[f]
        ELSE IF f \in DOMAIN p /\ IsList(p[f]) /\ IsList(s[f])
             THEN (IF Len(s[f].v) >= Len(p[f].v) THEN s[f] ELSE p[f])
             ELSE MergeField(p, f, s[f])]

\* a merger that keeps only the fields both records have
merge_hearingsMutIntersect(p, s) ==
    [f \in DOMAIN p \cap DOMAIN s |-> MergeField(p, f, s[f])]

\* merged = primary.copy(), then every field of secondary once; the
\* iterations touch different fields, so their order does not matter
merge_hearings(p, s) ==
    [f \in DOMAIN p \cup DOMAIN s |->
        IF f \in DOMAIN s THEN MergeField(p, f, s[f]) ELSE p[f]]

----------------------------------------------------------------------------
(* cleanup_hearings.py: deduplicate_hearings *)

\* seen is a Python dict: the sequence of its items in insertion order;
\* assigning to a key already stored keeps the position of that key
HasKey(d, key) == \E i \in 1..Len(d) : d[i].key = key
IndexOfKey(d, key) == CHOOSE i \in 1..Len(d) : d[i].key = key
Values(d) == [i \in 1..Len(d) |-> d[i].value]

\* a loop body that makes the incoming record primary on equal scores too
dedup_iterationMutTie(st, hearing) ==
    LET key == get_hearing_key(hearing) IN
    IF HasKey(st.seen, key)
    THEN LET i == IndexOfKey(st.seen, key)
             existing == st.seen[i].value
             existing_score == count_non_null_fields(existing)
             new_score == count_non_null_fields(hearing)
             result == IF new_score >= existing_score
                       THEN merge_hearings(hearing, existing)
                       ELSE merge_hearings(existing, hearing)
         IN [ seen |-> [st.seen EXCEPT ![i].value = result],
              duplicates_found |-> st.duplicates_found + 1 ]
    ELSE [ seen |-> Append(st.seen, [key |-> key, value |-> hearing]),
           duplicates_found |-> st.duplicates_found ]

\* a loop body that counts a duplicate only when the stored record is kept
dedup_iterationMutCount(st, hearing) ==
    LET key == get_hearing_key(hearing) IN
    IF HasKey(st.seen, key)
    THEN LET i == IndexOfKey(st.seen, key)
             existing == st.seen[i].value
             existing_score == count_non_null_fields(existing)
             new_score == count_non_null_fields(hearing)
         IN IF new_score > existing_score
            THEN [ seen |-> [st.seen EXCEPT
                               ![i].value = merge_hearings(hearing, existing)],
                   duplicates_found |-> st.duplicates_found ]
            ELSE [ seen |-> [st.seen EXCEPT
                               ![i].value = merge_hearings(existing, hearing)],
                   duplicates_found |-> st.duplicates_found + 1 ]
    ELSE [ seen |-> Append(st.seen, [key |-> key, value |-> hearing]),
           duplicates_found |-> st.duplicates_found ]

\* a loop body that stores the merged record anew, at the end of seen, when
\* the incoming hearing has the higher score (del seen[key]; seen[key] = ...)
dedup_iterationMutReinsert(st, hearing) ==
    LET key == get_hearing_key(hearing) IN
    IF HasKey(st.seen, key)
    THEN LET i == IndexOfKey(st.seen, key)
             existing == st.seen[i].value
             existing_score == count_non_null_fields(existing)
             new_score == count_non_null_fields(hearing)
             others == [j \in 1..(Len(st.seen) - 1) |->
                           IF j < i THEN st.seen[j] ELSE st.seen[j + 1]]
         IN IF new_score > existing_score
            THEN [ seen |-> Append(others,
                       [key |-> key, value |-> merge_hearings(hearing, existing)]),
                   duplicates_found |-> st.duplicates_found + 1 ]
            ELSE [ seen |-> [st.seen EXCEPT
                               ![i].value = merge_hearings(existing, hearing)],
                   duplicates_found |-> st.duplicates_found + 1 ]
    ELSE [ seen |-> Append(st.seen, [key |-> key, value |-> hearing]),
           duplicates_found |-> st.duplicates_found ]

\* a loop body that keeps an incoming hearing of a stored key as an entry of
\* its own when it does not outscore the stored record
dedup_iterationMutKeepBoth(st, hearing) ==
    LET key == get_hearing_key(hearing) IN
    IF HasKey(st.seen, key)
    THEN LET i == IndexOfKey(st.seen, key)
             existing == st.seen[i].value
             existing_score == count_non_null_fields(existing)
             new_score == count_non_null_fields(hearing)
         IN IF new_score > existing_score
            THEN [ seen |-> [st.seen EXCEPT
                               ![i].value = merge_hearings(hearing, existing)],
                   duplicates_found |-> st.duplicates_found + 1 ]
            ELSE [ seen |-> Append(st.seen, [key |-> key, value |-> hearing]),
                   duplicates_found |-> st.duplicates_found + 1 ]
    ELSE [ seen |-> Append(st.seen, [key |-> key, value |-> hearing]),
           duplicates_found |-> st.duplicates_found ]

\* the body of "for hearing in hearings" on the state (seen, duplicates_found)
dedup_iteration(st, hearing) ==
    LET key == get_hearing_key(hearing) IN
    IF HasKey(st.seen, key)
    THEN LET i == IndexOfKey(st.seen, key)
             existing == st.seen[i].value
             existing_score == count_non_null_fields(existing)
             new_score == count_non_null_fields(hearing)
             result == IF new_score > existing_score
                       THEN merge_hearings(hearing, existing)
                       ELSE merge_hearings(existing, hearing)
         IN [ seen |-> [st.seen EXCEPT ![i].value = result],
              duplicates_found |-> st.duplicates_found + 1 ]
    ELSE [ seen |-> Append(st.seen, [key |-> key, value |-> hearing]),
           duplicates_found |-> st.duplicates_found ]

\* a deduplicate_hearings that returns the list it was given
deduplicate_hearingsMutInput(hs) == hs

RECURSIVE dedup_loop(_, _)
dedup_loop(st, hs) ==
    IF hs = <<>> THEN st
    ELSE dedup_loop(dedup_iteration(st, Head(hs)), Tail(hs))

\* deduplicate_hearings(hearings): the list returned
deduplicate_hearings(hs) ==
    Values(dedup_loop([seen |-> <<>>, duplicates_found |-> 0], hs).seen)

----------------------------------------------------------------------------
(* cleanup_hearings.py: merge_yaml_files and save_yaml *)

\* d[key] = value on a dict kept as the sequence of its items
DictSet(d, key, value) ==
    IF HasKey(d, key)
    THEN [d EXCEPT ![IndexOfKey(d, key)].value = value]
    ELSE Append(d, [key |-> key, value |-> value])

DictGet(d, key) == d[IndexOfKey(d, key)].value

\* lines 113-116: secondary_lookup
RECURSIVE secondary_lookup(_, _)
secondary_lookup(lookup, secondary_hearings) ==
    IF secondary_hearings = <<>> THEN lookup
    ELSE LET hearing == Head(secondary_hearings) IN
         secondary_lookup(DictSet(lookup, get_hearing_key(hearing), hearing),
                          Tail(secondary_hearings))

\* lines 122-130 with the arguments of merge_hearings exchanged
RECURSIVE merge_primaryMutSwap(_, _, _)
merge_primaryMutSwap(st, lookup, primary_hearings) ==
    IF primary_hearings = <<>> THEN st
    ELSE LET hearing == Head(primary_hearings)
             key == get_hearing_key(hearing)
         IN merge_primaryMutSwap(
                IF HasKey(lookup, key)
                THEN [ merged |-> Append(st.merged,
                                         merge_hearings(hearing, DictGet(lookup, key))),
                       updated_count |-> st.updated_count + 1 ]
                ELSE [ merged |-> Append(st.merged, hearing),
                       updated_count |-> st.updated_count ],
                lookup, Tail(primary_hearings))

\* lines 122-130: the loop over the primary file
RECURSIVE merge_primary(_, _, _)
merge_primary(st, lookup, primary_hearings) ==
    IF primary_hearings = <<>> THEN st
    ELSE LET hearing == Head(primary_hearings)
             key == get_hearing_key(hearing)
         IN merge_primary(
                IF HasKey(lookup, key)
                THEN [ merged |-> Append(st.merged,
                                         merge_hearings(DictGet(lookup, key), hearing)),
                       updated_count |-> st.updated_count + 1 ]
                ELSE [ merged |-> Append(st.merged, hearing),
                       updated_count |-> st.updated_count ],
                lookup, Tail(primary_hearings))

\* lines 133-139: the loop that appends what only the secondary file has
RECURSIVE append_new(_, _, _)
append_new(st, primary_keys, secondary_hearings) ==
    IF secondary_hearings = <<>> THEN st
    ELSE LET hearing == Head(secondary_hearings) IN
         append_new(
             IF get_hearing_key(hearing) \notin primary_keys
             THEN [ merged |-> Append(st.merged, hearing),
                    new_count |-> st.new_count + 1 ]
             ELSE st,
             primary_keys, Tail(secondary_hearings))

\* merge_yaml_files on the hearings lists of the two files
merge_yaml_files(primary_hearings, secondary_hearings) ==
    LET lookup == secondary_lookup(<<>>, secondary_hearings)
        first == merge_primary([merged |-> <<>>, updated_count |-> 0],
                               lookup, primary_hearings)
        primary_keys == { get_hearing_key(primary_hearings[i]) :
                             i \in 1..Len(primary_hearings) }
        second == append_new([merged |-> first.merged, new_count |-> 0],
                             primary_keys, secondary_hearings)
    IN [ merged |-> second.merged,
         updated_count |-> first.updated_count,
         new_count |-> second.new_count ]

\* the characters of the model in the order of their code points
Ascii ==
    << " ", "-", "0", "1", "2", "3", "4", "5", "6", "7", "8", "9",
       "A", "B", "L", "M", "T", "U", "X", "a", "n", "s", "u", "x", "y" >>

Ord(c) == CHOOSE i \in 1..Len(Ascii) : Ascii[i] = c

\* a < b for two str
RECURSIVE StrLess(_, _)
StrLess(a, b) ==
    IF b = <<>> THEN FALSE
    ELSE IF a = <<>> THEN TRUE
    ELSE IF Head(a) = Head(b) THEN StrLess(Tail(a), Tail(b))
    ELSE Ord(Head(a)) < Ord(Head(b))

NoDate == Str(<<"0", "0", "0", "0", "-", "0", "0", "-", "0", "0">>)

\* key=lambda h: h.get('date') or '0000-00-00'
cleanup_sort_key(h) == Or(Get(h, "date", Null), NoDate)

\* sorted(xs, key=..., reverse=True) on the pairs (key k, element x); it is
\* stable: p goes behind every pair already placed whose key is not smaller
InsertDesc(sorted, p) ==
    LET n == Cardinality({i \in 1..Len(sorted) : ~StrLess(sorted[i].k.v, p.k.v)})
    IN SubSeq(sorted, 1, n) \o <<p>> \o SubSeq(sorted, n + 1, Len(sorted))

RECURSIVE SortDesc(_, _)
SortDesc(sorted, rest) ==
    IF rest = <<>> THEN sorted
    ELSE SortDesc(InsertDesc(sorted, Head(rest)), Tail(rest))

sorted_reverse(pairs) ==
    LET r == SortDesc(<<>>, pairs) IN [i \in 1..Len(r) |-> r[i].x]

save_yaml_sorted(hs) ==
    sorted_reverse([i \in 1..Len(hs) |-> [k |-> cleanup_sort_key(hs[i]), x |-> hs[i]]])

\* what save_yaml writes: the metadata status and the sorted hearings
save_yaml(hs) ==
    [ exists |-> TRUE, status |-> "complete",
      hearings |-> save_yaml_sorted(hs) ]

NoFile == [ exists |-> FALSE, status |-> "", hearings |-> <<>> ]

----------------------------------------------------------------------------
(* fetch_congressional_hearings.py: Hearing objects, the checkpoint and the
   snapshot.  A Hearing, a SourceLink and a Person are records of values;
   their list attributes are sequences. *)

\* {"k": v} if v else {} inside a dict display: Absent leaves the field out
IfTruthy(x) == IF Truthy(x) THEN x ELSE Absent

HasUrl(s) == Truthy(s.url)

source_to_dict(s) ==
    Dict([ url |-> s.url, type |-> s.source_type, source |-> s.source_name,
           description |-> IfTruthy(s.description) ])

sources_to_dicts(xs) == [i \in 1..Len(xs) |-> source_to_dict(xs[i])]

member_to_dict(p) ==
    Dict([ name |-> p.name, role |-> p.role, title |-> IfTruthy(p.title),
           party |-> IfTruthy(p.party), state |-> IfTruthy(p.state) ])

members_to_dicts(xs) == [i \in 1..Len(xs) |-> member_to_dict(xs[i])]

witness_to_dict(p) ==
    Dict([ name |-> p.name, title |-> IfTruthy(p.title),
           organization |-> IfTruthy(p.organization) ])

witnesses_to_dicts(xs) == [i \in 1..Len(xs) |-> witness_to_dict(xs[i])]

\* hearing_to_dict; jacket_number and event_id are not written
hearing_to_dict(hearing) ==
    Dict([ title |-> hearing.title,
           date |-> hearing.date,
           end_date |-> IfTruthy(hearing.end_date),
           congress |-> hearing.congress,
           chamber |-> hearing.chamber,
           type |-> IfTruthy(hearing.hearing_type),
           committee |-> IfTruthy(hearing.committee),
           subcommittee |-> IfTruthy(hearing.subcommittee),
           status |-> IfTruthy(hearing.status),
           location |-> IfTruthy(hearing.location),
           sources |-> IF hearing.sources # <<>>
                       THEN List(sources_to_dicts(SelectSeq(hearing.sources, HasUrl)))
                       ELSE Null,
           members |-> IF hearing.members # <<>>
                       THEN List(members_to_dicts(hearing.members))
                       ELSE Null,
           witnesses |-> IF hearing.witnesses # <<>>
                         THEN List(witnesses_to_dicts(hearing.witnesses))
                         ELSE Null,
           related_bills |-> IF hearing.related_bills # <<>>
                             THEN List(hearing.related_bills)
                             ELSE Null ])

hearings_to_dicts(xs) == [i \in 1..Len(xs) |-> hearing_to_dict(xs[i])]

\* (d.get(f) or []) for a list field
ListOrEmpty(d, f) ==
    LET x == Get(d, f, Null) IN IF Truthy(x) THEN x.v ELSE <<>>

dict_to_source(s) ==
    [ url |-> Get(s, "url", Str(<<>>)),
      source_type |-> Get(s, "type", Str(<<>>)),
      source_name |-> Get(s, "source", Str(<<>>)),
      description |-> Get(s, "description", Null) ]

dicts_to_sources(xs) == [i \in 1..Len(xs) |-> dict_to_source(xs[i])]

dict_to_member(m) ==
    [ name |-> Get(m, "name", Str(<<>>)),
      role |-> Get(m, "role", Str(<<>>)),
      title |-> Get(m, "title", Null),
      organization |-> Null,
      party |-> Get(m, "party", Null),
      state |-> Get(m, "state", Null) ]

dicts_to_members(xs) == [i \in 1..Len(xs) |-> dict_to_member(xs[i])]

dict_to_witness(w) ==
    [ name |-> Get(w, "name", Str(<<>>)),
      role |-> Str(<<"w", "i", "t", "n", "e", "s", "s">>),
      title |-> Get(w, "title", Null),
      organization |-> Get(w, "organization", Null),
      party |-> Null,
      state |-> Null ]

dicts_to_witnesses(xs) == [i \in 1..Len(xs) |-> dict_to_witness(xs[i])]

\* dict_to_hearing; the attributes it does not pass take their defaults
dict_to_hearing(d) ==
    [ title |-> Get(d, "title", Str(<<>>)),
      date |-> Get(d, "date", Null),
      end_date |-> Get(d, "end_date", Null),
      congress |-> Get(d, "congress", Num(0)),
      chamber |-> Get(d, "chamber", Null),
      hearing_type |-> Get(d, "type", Null),
      committee |-> Get(d, "committee", Null),
      subcommittee |-> Get(d, "subcommittee", Null),
      status |-> Get(d, "status", Null),
      location |-> Get(d, "location", Null),
      sources |-> dicts_to_sources(ListOrEmpty(d, "sources")),
      members |-> dicts_to_members(ListOrEmpty(d, "members")),
      witnesses |-> dicts_to_witnesses(ListOrEmpty(d, "witnesses")),
      related_bills |-> ListOrEmpty(d, "related_bills"),
      jacket_number |-> Null,
      event_id |-> Null ]

dicts_to_hearings(xs) == [i \in 1..Len(xs) |-> dict_to_hearing(xs[i])]

\* json.dump then json.load of a completed marker: a tuple comes back a list
JsonMarker(c) == [c EXCEPT !.kind = "list"]

JsonMarkers(xs) == [i \in 1..Len(xs) |-> JsonMarker(xs[i])]

\* a membership test that looks at the congress alone
IsCompletedMutCongress(done, partition) ==
    \E i \in 1..Len(done) : done[i].c0 = partition[1]

\* (congress, chamber) in [(c[0], c[1]) for c in completed]
IsCompleted(done, partition) ==
    \E i \in 1..Len(done) : done[i].c0 = partition[1] /\ done[i].c1 = partition[2]

FileAbsent == [ state |-> "absent", status |-> "", hearings |-> <<>>, completed |-> <<>> ]

\* open(path, "w") has emptied the file and the dump has not ended
FileTruncated == [ state |-> "truncated", status |-> "", hearings |-> <<>>, completed |-> <<>> ]

\* the file save_checkpoint leaves
checkpoint_content(hs, done) ==
    [ state |-> "valid", status |-> "",
      hearings |-> hearings_to_dicts(hs),
      completed |-> JsonMarkers(done) ]

\* key=lambda h: h.date or "0000-00-00"
fetch_sort_key(h) == Or(h.date, NoDate)

\* the file save_yaml_output leaves
yaml_content(hs, is_complete) ==
    [ state |-> "valid",
      status |-> IF is_complete THEN "complete" ELSE "in_progress",
      hearings |-> hearings_to_dicts(
                      sorted_reverse([i \in 1..Len(hs) |->
                                         [k |-> fetch_sort_key(hs[i]), x |-> hs[i]]])),
      completed |-> <<>> ]

----------------------------------------------------------------------------
(* The votes fetcher: the file save_to_yaml writes *)

NoVotesFile == [ state |-> "absent", total_votes |-> 0, votes |-> <<>> ]

\* open(output_path, "w") has emptied the file and the dump has not ended
VotesFileTruncated == [ state |-> "truncated", total_votes |-> 0, votes |-> <<>> ]

----------------------------------------------------------------------------
(* what the variables of a part hold while another part runs *)

FetchIdle ==
    /\ source = <<>>
    /\ resume = FALSE
    /\ all_hearings = <<>>
    /\ completed = <<>>
    /\ part = 0
    /\ fpc = "idle"
    /\ checkpoint_file = FileAbsent
    /\ yaml_output = FileAbsent
    /\ crashes = 0
    /\ saves_done = 0
    /\ interrupted_after_save = FALSE
    /\ requests = <<>>
    /\ loaded = <<>>
    /\ held = <<>>

RetryIdle ==
    /\ offset = 0
    /\ attempt = 0
    /\ data = "unset"
    /\ caller = "none"
    /\ all_items = <<>>
    /\ meeting_i = 0
    /\ fetched = <<>>
    /\ responses = <<>>
    /\ listing_failed = {}

ProbeIdle ==
    /\ last_vote = 0
    /\ max_vote = 0
    /\ low = 0
    /\ high = 0
    /\ vote_num = 0
    /\ submitted = <<>>
    /\ ppc = "idle"

VotesIdle ==
    /\ future = <<>>
    /\ consumed = {}
    /\ batch = 0
    /\ all_votes = <<>>
    /\ processed = 0
    /\ last_save_count = 0
    /\ vpc = "idle"
    /\ vret = "idle"
    /\ votes_sorted = <<>>
    /\ total_votes = 0
    /\ votes_output = NoVotesFile

MergeIdle ==
    /\ primary = EmptyDict
    /\ secondary = EmptyDict
    /\ merged = EmptyDict
    /\ mpc = "idle"

DedupIdle ==
    /\ hearings = <<>>
    /\ seen = <<>>
    /\ duplicates_found = 0
    /\ deduped = <<>>
    /\ dpc = "idle"

CleanupIdle ==
    /\ args = [merge |-> FALSE, no_dedup |-> FALSE]
    /\ input_file = <<>>
    /\ merge_file = <<>>
    /\ input_shape = "ok"
    /\ merge_shape = "ok"
    /\ main_hearings = <<>>
    /\ updated_count = 0
    /\ output_file = NoFile
    /\ cpc = "idle"

----------------------------------------------------------------------------
(* merge_hearings called on any two hearings *)

\* the values a field of no fixed type is given
AnyValue ==
    { Null, Str(<<>>), Str(<<" ">>), Str(<<"A">>), Str(<<"B">>),
      Num(0), Num(7),
      List(<<>>), List(<<"x">>), List(<<"y">>), List(<<"x", "y">>) }

MergePool ==
    { Dict(r) : r \in [ title : {Absent, Str(<<"T">>)},
                        location : AnyValue \cup {Absent},
                        witnesses : AnyValue \cup {Absent} ] }

InitMerge ==
    /\ primary \in MergePool
    /\ secondary \in MergePool
    /\ merged = EmptyDict
    /\ mpc = "call"
    /\ DedupIdle
    /\ CleanupIdle
    /\ FetchIdle
    /\ VotesIdle
    /\ RetryIdle
    /\ ProbeIdle

MergeCall ==
    /\ mpc = "call"
    /\ merged' = merge_hearings(primary, secondary)
    /\ mpc' = "returned"
    /\ UNCHANGED <<primary, secondary, dedupVars, cleanupVars, fetchVars, votesVars,
                   retryVars, probeVars>>

NextMerge == MergeCall

SpecMerge == InitMerge /\ [][NextMerge]_vars

----------------------------------------------------------------------------
(* deduplicate_hearings on any list of hearings, one iteration per step *)

MaxHearings == 3

X == Str(<<"X">>)

\* title absent, null or given; the committee name held by the committee
\* field or by the subcommittee field; location absent or one of two
DedupPool ==
    { Dict(r) : r \in [ title : {Absent, Null, Str(<<"T">>)},
                        committee : {X},
                        subcommittee : {Absent},
                        location : {Absent, Str(<<"L">>), Str(<<"M">>)} ]
                   \cup
                      [ title : {Absent, Null, Str(<<"T">>)},
                        committee : {Absent},
                        subcommittee : {X},
                        location : {Absent, Str(<<"L">>), Str(<<"M">>)} ] }

InitDedup ==
    /\ hearings = <<>>
    /\ seen = <<>>
    /\ duplicates_found = 0
    /\ deduped = <<>>
    /\ dpc = "loop"
    /\ MergeIdle
    /\ CleanupIdle
    /\ FetchIdle
    /\ VotesIdle
    /\ RetryIdle
    /\ ProbeIdle

\* lines 71-88 for the next hearing of the input list
DedupIteration ==
    /\ dpc = "loop"
    /\ Len(hearings) < MaxHearings
    /\ \E hearing \in DedupPool :
          LET st == dedup_iteration(
                       [seen |-> seen, duplicates_found |-> duplicates_found],
                       hearing)
          IN /\ hearings' = Append(hearings, hearing)
             /\ seen' = st.seen
             /\ duplicates_found' = st.duplicates_found
    /\ UNCHANGED <<deduped, dpc, mergeVars, cleanupVars, fetchVars, votesVars,
                   retryVars, probeVars>>

\* the input list is exhausted: return list(seen.values())
DedupReturn ==
    /\ dpc = "loop"
    /\ deduped' = Values(seen)
    /\ dpc' = "returned"
    /\ UNCHANGED <<hearings, seen, duplicates_found, mergeVars, cleanupVars, fetchVars, votesVars,
                   retryVars, probeVars>>

NextDedup == DedupIteration \/ DedupReturn

SpecDedup == InitDedup /\ [][NextDedup]_vars

----------------------------------------------------------------------------
(* One run of the clean-up tool: main of cleanup_hearings.py *)

MaxInput == 2
MaxMerge == 2

Date2022 == Str(<<"2", "0", "2", "2", "-", "0", "3", "-", "0", "1">>)
Date2021 == Str(<<"2", "0", "2", "1", "-", "0", "1", "-", "0", "5">>)
DateTBA == Str(<<"T", "B", "A">>)

\* hearings of a snapshot file: one meeting fetched three times (with one
\* source; refetched with two sources and a location; with another location
\* and another source), and another meeting with a date, a null date, no
\* date, a date that is no YYYY-MM-DD date
FilePool ==
    { Dict([title |-> Str(<<"T">>), date |-> Date2022,
            location |-> Absent, sources |-> List(<<"s1">>)]),
      Dict([title |-> Str(<<"T">>), date |-> Date2022,
            location |-> Str(<<"L">>), sources |-> List(<<"s1", "s2">>)]),
      Dict([title |-> Str(<<"T">>), date |-> Date2022,
            location |-> Str(<<"M">>), sources |-> List(<<"s3">>)]),
      Dict([title |-> Str(<<"U">>), date |-> Date2021,
            location |-> Str(<<"L">>), sources |-> Null]),
      Dict([title |-> Str(<<"U">>), date |-> Null,
            location |-> Absent, sources |-> Absent]),
      Dict([title |-> Str(<<"U">>), date |-> Absent,
            location |-> Absent, sources |-> Absent]),
      Dict([title |-> Str(<<"U">>), date |-> DateTBA,
            location |-> Absent, sources |-> Absent]) }

\* hearings of the file given with --merge, a newer fetch: the meetings of
\* the pool that have a date
MergeFilePool == { h \in FilePool : Get(h, "date", Null) \in {Date2022, Date2021} }

SeqsUpTo(S, n) == UNION { [1..k -> S] : k \in 0..n }

\* what a path given to the tool can lead to: a snapshot with a hearings
\* list, no file, a file that is no YAML, a YAML document that is no mapping
\* (a list, a scalar, an empty file), a mapping without the key hearings
Shapes == {"ok", "missing", "unparseable", "not_mapping", "no_hearings"}

\* open (lines 97, 101, 292) or yaml.safe_load (lines 98, 102, 293) or
\* data.get (lines 104, 105, 294) raises on a file of that shape
LoadRaises(shape) == shape \in {"missing", "unparseable", "not_mapping"}

\* data.get('hearings', [])
loaded_hearings(shape, file) == IF shape = "ok" THEN file ELSE <<>>

InitCleanup ==
    /\ args \in [merge : BOOLEAN, no_dedup : BOOLEAN]
    /\ input_shape \in Shapes
    /\ input_file \in (IF input_shape = "ok"
                       THEN SeqsUpTo(FilePool, MaxInput) ELSE {<<>>})
    /\ merge_shape \in (IF args.merge THEN Shapes ELSE {"ok"})
    /\ merge_file \in (IF args.merge /\ merge_shape = "ok"
                       THEN SeqsUpTo(MergeFilePool, MaxMerge) ELSE {<<>>})
    /\ main_hearings = <<>>
    /\ updated_count = 0
    /\ output_file = NoFile
    /\ cpc = "load"
    /\ MergeIdle
    /\ DedupIdle
    /\ FetchIdle
    /\ VotesIdle
    /\ RetryIdle
    /\ ProbeIdle

\* lines 284-288: --merge given
CleanupMerge ==
    /\ cpc = "load"
    /\ args.merge
    /\ ~LoadRaises(input_shape) /\ ~LoadRaises(merge_shape)
    /\ LET r == merge_yaml_files(loaded_hearings(input_shape, input_file),
                                 loaded_hearings(merge_shape, merge_file))
       IN /\ main_hearings' = r.merged
          /\ updated_count' = r.updated_count
    /\ cpc' = "dedup"
    /\ UNCHANGED <<args, input_file, merge_file, input_shape, merge_shape,
                   output_file, mergeVars, dedupVars, fetchVars, votesVars,
                   retryVars, probeVars>>

\* lines 289-295: a single file
CleanupLoad ==
    /\ cpc = "load"
    /\ ~args.merge
    /\ ~LoadRaises(input_shape)
    /\ main_hearings' = loaded_hearings(input_shape, input_file)
    /\ cpc' = "dedup"
    /\ UNCHANGED <<args, input_file, merge_file, input_shape, merge_shape,
                   updated_count, output_file,
                   mergeVars, dedupVars, fetchVars, votesVars,
                   retryVars, probeVars>>

\* lines 97-105 and 292-294 on a file that cannot be opened or parsed or
\* that is no mapping: the exception ends the run
CleanupLoadFails ==
    /\ cpc = "load"
    /\ LoadRaises(input_shape) \/ (args.merge /\ LoadRaises(merge_shape))
    /\ cpc' = "aborted"
    /\ UNCHANGED <<args, input_file, merge_file, input_shape, merge_shape,
                   main_hearings, updated_count, output_file,
                   mergeVars, dedupVars, fetchVars, votesVars,
                   retryVars, probeVars>>

\* lines 298-302
CleanupDeduplicate ==
    /\ cpc = "dedup"
    /\ ~args.no_dedup
    /\ main_hearings' = deduplicate_hearings(main_hearings)
    /\ cpc' = "save"
    /\ UNCHANGED <<args, input_file, merge_file, input_shape, merge_shape,
                   updated_count, output_file,
                   mergeVars, dedupVars, fetchVars, votesVars,
                   retryVars, probeVars>>

\* lines 305-306 with no hearing at all: print_stats divides by the total
\* (line 206) and ZeroDivisionError ends the run before save_yaml
CleanupStatsFails ==
    /\ cpc = "save" \/ (cpc = "dedup" /\ args.no_dedup)
    /\ main_hearings = <<>>
    /\ cpc' = "aborted"
    /\ UNCHANGED <<args, input_file, merge_file, input_shape, merge_shape,
                   main_hearings, updated_count, output_file,
                   mergeVars, dedupVars, fetchVars, votesVars,
                   retryVars, probeVars>>

\* lines 304-311; with --no-dedup line 298 falls through to here
CleanupSave ==
    /\ cpc = "save" \/ (cpc = "dedup" /\ args.no_dedup)
    /\ main_hearings # <<>>
    /\ output_file' = save_yaml(main_hearings)
    /\ cpc' = "done"
    /\ UNCHANGED <<args, input_file, merge_file, input_shape, merge_shape,
                   main_hearings, updated_count,
                   mergeVars, dedupVars, fetchVars, votesVars,
                   retryVars, probeVars>>

Next ==
    \/ CleanupMerge \/ CleanupLoad \/ CleanupLoadFails
    \/ CleanupDeduplicate \/ CleanupStatsFails \/ CleanupSave

Init == InitCleanup

Spec == Init /\ [][Next]_vars

----------------------------------------------------------------------------
(* Runs of the hearings fetcher: main of fetch_congressional_hearings.py.
   A run can be interrupted between any two steps, also between the
   open(path, "w") that empties a file and the end of the dump into it, and
   is then started again. *)

NumCongresses == 1
MaxPerPartition == 1
MaxCrashes == 1

ALL_CONGRESSES == <<116, 117, 118, 119>>

\* CONGRESSES: the first congresses of ALL_CONGRESSES (--congress 116 for one)
CONGRESSES == SubSeq(ALL_CONGRESSES, 1, NumCongresses)

Chambers == <<"house", "senate">>

\* the (congress, chamber) pairs in the order of the two nested loops
Partitions ==
    [ i \in 1..(2 * Len(CONGRESSES)) |->
        << CONGRESSES[(i + 1) \div 2], Chambers[2 - (i % 2)] >> ]

Link(url) ==
    [ url |-> Str(url), source_type |-> Str(<<"v">>),
      source_name |-> Str(<<"c">>), description |-> Null ]

Witness(name) ==
    [ name |-> Str(name), role |-> Str(<<"w", "i", "t", "n", "e", "s", "s">>),
      title |-> Null, organization |-> Null, party |-> Null, state |-> Null ]

Meeting(title, date, committee, subcommittee, location, sources, witnesses) ==
    [ title |-> title, date |-> date, end_date |-> Null,
      congress |-> Num(116), chamber |-> Str(<<"H">>), hearing_type |-> Null,
      committee |-> committee, subcommittee |-> subcommittee,
      status |-> Null, location |-> location,
      sources |-> sources, members |-> <<>>, witnesses |-> witnesses,
      related_bills |-> <<>>, jacket_number |-> Null, event_id |-> Str(<<"7">>) ]

\* Hearing objects as parse_meeting_to_hearing builds them, in the order the
\* API lists them: a meeting with a video and a witness; the same meeting
\* listed again with a location and a video without url; a meeting without
\* date under a subcommittee
HearingFeed ==
    << Meeting(Str(<<"T">>), Date2022, X, Null, Null,
               <<Link(<<"u">>)>>, <<Witness(<<"n">>)>>),
       Meeting(Str(<<"T">>), Date2022, X, Null, Str(<<"L">>),
               <<Link(<<>>)>>, <<>>),
       Meeting(Str(<<"U">>), Null, Null, X, Null, <<>>, <<>>) >>

HearingPool == { HearingFeed[i] : i \in 1..Len(HearingFeed) }

\* what the API lists for partition p: the feed, started at another meeting
\* for each partition; a partition holds the first meetings of its list
PartitionFeed(p) ==
    [ i \in 1..Len(HearingFeed) |-> HearingFeed[((i + p - 2) % Len(HearingFeed)) + 1] ]

\* no partition has been requested by the run
NoRequests == [i \in 1..Len(Partitions) |-> 0]

InitFetch ==
    /\ \E ks \in [1..Len(Partitions) -> 0..MaxPerPartition] :
          source = [p \in 1..Len(Partitions) |-> SubSeq(PartitionFeed(p), 1, ks[p])]
    /\ resume \in BOOLEAN
    /\ all_hearings = <<>>
    /\ completed = <<>>
    /\ part = 0
    /\ fpc = "start"
    /\ checkpoint_file = FileAbsent
    /\ yaml_output = FileAbsent
    /\ crashes = 0
    /\ saves_done = 0
    /\ interrupted_after_save = FALSE
    /\ requests = NoRequests
    /\ loaded = <<>>
    /\ held = <<>>
    /\ MergeIdle
    /\ DedupIdle
    /\ CleanupIdle
    /\ VotesIdle
    /\ RetryIdle
    /\ ProbeIdle

\* lines 464-473 without --resume, or with it and no checkpoint file
FetchStartFresh ==
    /\ fpc = "start"
    /\ ~resume \/ checkpoint_file.state = "absent"
    /\ all_hearings' = <<>>
    /\ completed' = <<>>
    /\ part' = 1
    /\ fpc' = "loop"
    /\ UNCHANGED <<source, resume, checkpoint_file, yaml_output, crashes,
                   saves_done, interrupted_after_save,
                   requests, loaded, held,
                   mergeVars, dedupVars, cleanupVars, votesVars,
                   retryVars, probeVars>>

\* lines 467-473 with --resume: load_checkpoint, then dict_to_hearing
FetchStartResume ==
    /\ fpc = "start"
    /\ resume
    /\ checkpoint_file.state = "valid"
    /\ all_hearings' = dicts_to_hearings(checkpoint_file.hearings)
    /\ completed' = checkpoint_file.completed
    /\ part' = 1
    /\ fpc' = "loop"
    /\ loaded' = checkpoint_file.completed
    /\ UNCHANGED <<source, resume, checkpoint_file, yaml_output, crashes,
                   saves_done, interrupted_after_save,
                   requests, held,
                   mergeVars, dedupVars, cleanupVars, votesVars,
                   retryVars, probeVars>>

\* a load_checkpoint without the test of line 422: open raises on a missing
\* file as json.load does on a cut-off one
FetchStartFailsMutAbsent ==
    /\ fpc = "start"
    /\ resume
    /\ checkpoint_file.state \in {"truncated", "absent"}
    /\ fpc' = "failed"
    /\ UNCHANGED <<source, resume, all_hearings, completed, part,
                   checkpoint_file, yaml_output, crashes,
                   saves_done, interrupted_after_save,
                   requests, loaded, held,
                   mergeVars, dedupVars, cleanupVars, votesVars,
                   retryVars, probeVars>>

\* line 426 on a file that is no JSON document: json.load raises, nothing
\* catches it and the run ends
FetchStartFails ==
    /\ fpc = "start"
    /\ resume
    /\ checkpoint_file.state = "truncated"
    /\ fpc' = "failed"
    /\ UNCHANGED <<source, resume, all_hearings, completed, part,
                   checkpoint_file, yaml_output, crashes,
                   saves_done, interrupted_after_save,
                   requests, loaded, held,
                   mergeVars, dedupVars, cleanupVars, votesVars,
                   retryVars, probeVars>>

\* lines 477-479
FetchSkip ==
    /\ fpc = "loop"
    /\ part <= Len(Partitions)
    /\ IsCompleted(completed, Partitions[part])
    /\ part' = part + 1
    /\ UNCHANGED <<source, resume, all_hearings, completed, fpc,
                   checkpoint_file, yaml_output, crashes,
                   saves_done, interrupted_after_save,
                   requests, loaded, held,
                   mergeVars, dedupVars, cleanupVars, votesVars,
                   retryVars, probeVars>>

\* lines 485-487
FetchPartition ==
    /\ fpc = "loop"
    /\ part <= Len(Partitions)
    /\ ~IsCompleted(completed, Partitions[part])
    /\ all_hearings' = all_hearings \o source[part]
    /\ completed' = Append(completed, [ kind |-> "tuple",
                                        c0 |-> Partitions[part][1],
                                        c1 |-> Partitions[part][2] ])
    /\ fpc' = "checkpoint_open"
    /\ requests' = [requests EXCEPT ![part] = @ + 1]
    /\ UNCHANGED <<source, resume, part, checkpoint_file, yaml_output, crashes,
                   saves_done, interrupted_after_save,
                   loaded, held,
                   mergeVars, dedupVars, cleanupVars, votesVars,
                   retryVars, probeVars>>

\* line 378: open(CHECKPOINT_FILE, "w")
SaveCheckpointOpen ==
    /\ fpc = "checkpoint_open"
    /\ checkpoint_file' = FileTruncated
    /\ fpc' = "checkpoint_dump"
    /\ UNCHANGED <<source, resume, all_hearings, completed, part, yaml_output,
                   crashes, saves_done, interrupted_after_save,
                   requests, loaded, held,
                   mergeVars, dedupVars, cleanupVars, votesVars,
                   retryVars, probeVars>>

\* lines 379-380: json.dump and the close of the file
SaveCheckpointDump ==
    /\ fpc = "checkpoint_dump"
    /\ checkpoint_file' = checkpoint_content(all_hearings, completed)
    /\ saves_done' = saves_done + 1
    /\ fpc' = "yaml_open"
    /\ UNCHANGED <<source, resume, all_hearings, completed, part, yaml_output,
                   crashes, interrupted_after_save,
                   requests, loaded, held,
                   mergeVars, dedupVars, cleanupVars, votesVars,
                   retryVars, probeVars>>

\* line 408: open(output_file, "w"), from line 491 or from line 499
SaveYamlOpen ==
    /\ \/ fpc = "yaml_open" /\ fpc' = "yaml_dump"
       \/ fpc = "loop" /\ part > Len(Partitions) /\ fpc' = "final_dump"
    /\ yaml_output' = FileTruncated
    /\ UNCHANGED <<source, resume, all_hearings, completed, part,
                   checkpoint_file, crashes, saves_done, interrupted_after_save,
                   requests, loaded, held,
                   mergeVars, dedupVars, cleanupVars, votesVars,
                   retryVars, probeVars>>

\* the snapshot of line 491 written with the status of the final one
SaveYamlDumpMutComplete ==
    /\ fpc = "yaml_dump"
    /\ yaml_output' = yaml_content(all_hearings, TRUE)
    /\ part' = part + 1
    /\ fpc' = "loop"
    /\ UNCHANGED <<source, resume, all_hearings, completed, checkpoint_file,
                   crashes, saves_done, interrupted_after_save,
                   requests, loaded, held,
                   mergeVars, dedupVars, cleanupVars, votesVars,
                   retryVars, probeVars>>

\* lines 409-417 for line 491: is_complete=False, then the next partition
SaveYamlDump ==
    /\ fpc = "yaml_dump"
    /\ yaml_output' = yaml_content(all_hearings, FALSE)
    /\ part' = part + 1
    /\ fpc' = "loop"
    /\ UNCHANGED <<source, resume, all_hearings, completed, checkpoint_file,
                   crashes, saves_done, interrupted_after_save,
                   requests, loaded, held,
                   mergeVars, dedupVars, cleanupVars, votesVars,
                   retryVars, probeVars>>

\* lines 409-417 for line 499: is_complete=True
SaveYamlFinal ==
    /\ fpc = "final_dump"
    /\ yaml_output' = yaml_content(all_hearings, TRUE)
    /\ fpc' = "unlink"
    /\ UNCHANGED <<source, resume, all_hearings, completed, part,
                   checkpoint_file, crashes, saves_done, interrupted_after_save,
                   requests, loaded, held,
                   mergeVars, dedupVars, cleanupVars, votesVars,
                   retryVars, probeVars>>

\* lines 378-379 when open or a write of json.dump raises OSError (no
\* permission, no space left): nothing in save_checkpoint or main catches
\* it and the run ends; when open raised, the file of the last save is as
\* it was
SaveCheckpointFails ==
    /\ fpc \in {"checkpoint_open", "checkpoint_dump"}
    /\ held' = all_hearings
    /\ all_hearings' = <<>>
    /\ completed' = <<>>
    /\ part' = 0
    /\ fpc' = "aborted"
    /\ UNCHANGED <<source, resume, checkpoint_file, yaml_output, crashes,
                   saves_done, interrupted_after_save, requests, loaded,
                   mergeVars, dedupVars, cleanupVars, votesVars,
                   retryVars, probeVars>>

\* the checkpoint unlinked before the final write of the snapshot
RemoveCheckpointMutEarly ==
    /\ fpc = "loop"
    /\ part > Len(Partitions)
    /\ checkpoint_file' = FileAbsent
    /\ fpc' = "done"
    /\ UNCHANGED <<source, resume, all_hearings, completed, part, yaml_output,
                   crashes, saves_done, interrupted_after_save,
                   requests, loaded, held,
                   mergeVars, dedupVars, cleanupVars, votesVars,
                   retryVars, probeVars>>

\* lines 507-509
RemoveCheckpoint ==
    /\ fpc = "unlink"
    /\ checkpoint_file' = FileAbsent
    /\ fpc' = "done"
    /\ UNCHANGED <<source, resume, all_hearings, completed, part, yaml_output,
                   crashes, saves_done, interrupted_after_save,
                   requests, loaded, held,
                   mergeVars, dedupVars, cleanupVars, votesVars,
                   retryVars, probeVars>>

\* the process is killed, or gets a KeyboardInterrupt, which nothing in
\* main catches: what it held in memory is gone, the files stay
Interrupt ==
    /\ fpc \notin {"idle", "done", "failed", "aborted", "interrupted"}
    /\ crashes < MaxCrashes
    /\ crashes' = crashes + 1
    /\ interrupted_after_save' = (saves_done > 0)
    /\ all_hearings' = <<>>
    /\ completed' = <<>>
    /\ part' = 0
    /\ fpc' = "interrupted"
    /\ held' = all_hearings
    /\ UNCHANGED <<source, resume, checkpoint_file, yaml_output, saves_done,
                   requests, loaded,
                   mergeVars, dedupVars, cleanupVars, votesVars,
                   retryVars, probeVars>>

\* the fetcher is started again, with or without --resume
Restart ==
    /\ fpc = "interrupted"
    /\ resume' \in BOOLEAN
    /\ saves_done' = 0
    /\ fpc' = "start"
    /\ requests' = NoRequests
    /\ loaded' = <<>>
    /\ UNCHANGED <<source, all_hearings, completed, part, checkpoint_file,
                   yaml_output, crashes, interrupted_after_save,
                   held,
                   mergeVars, dedupVars, cleanupVars, votesVars,
                   retryVars, probeVars>>

NextFetch ==
    \/ FetchStartFresh \/ FetchStartResume \/ FetchStartFails
    \/ FetchSkip \/ FetchPartition
    \/ SaveCheckpointOpen \/ SaveCheckpointDump \/ SaveCheckpointFails
    \/ SaveYamlOpen \/ SaveYamlDump \/ SaveYamlFinal
    \/ RemoveCheckpoint
    \/ Interrupt \/ Restart

SpecFetch == InitFetch /\ [][NextFetch]_vars

----------------------------------------------------------------------------
(* SpecRetry: one fresh run of the hearings fetcher with the requests of    *)
(* each partition's fetch: the pages of fetch_all_paginated, the attempts   *)
(* of fetch_with_retry and the details request of each meeting.  The API    *)
(* answers an attempt with a document, with status 429 or with an error.    *)

\* the page size; 250 in the code (line 122)
limit == 2

\* fetch_with_retry(url, params, max_retries=3)
max_retries == 3

\* what requests.get of one attempt leads to: a JSON document, status 429,
\* or a RequestException (no connection, a timeout, an error status raised
\* by raise_for_status)
Statuses == {"ok", "rate_limited", "error"}

\* the Hearing parse_meeting_to_hearing builds from the entry of the listing
\* when the details request gave nothing (line 162): the listing names the
\* meeting, its place, videos and witnesses come with the details
FromListing(m) ==
    [m EXCEPT !.location = Null, !.sources = <<>>, !.witnesses = <<>>]

InitRetry ==
    /\ source = [p \in 1..Len(Partitions) |-> PartitionFeed(p)]
    /\ resume = FALSE
    /\ all_hearings = <<>>
    /\ completed = <<>>
    /\ part = 0
    /\ fpc = "start"
    /\ checkpoint_file = FileAbsent
    /\ yaml_output = FileAbsent
    /\ crashes = 0
    /\ saves_done = 0
    /\ interrupted_after_save = FALSE
    /\ requests = NoRequests
    /\ loaded = <<>>
    /\ held = <<>>
    /\ RetryIdle
    /\ MergeIdle
    /\ DedupIdle
    /\ CleanupIdle
    /\ VotesIdle
    /\ ProbeIdle

\* lines 477, 485 and 563-566: the partition is not completed;
\* fetch_all_paginated starts (lines 120-122) and calls fetch_with_retry for
\* the first page (line 128)
ListingStart ==
    /\ fpc = "loop"
    /\ part <= Len(Partitions)
    /\ ~IsCompleted(completed, Partitions[part])
    /\ requests' = [requests EXCEPT ![part] = @ + 1]
    /\ all_items' = <<>>
    /\ offset' = 0
    /\ fetched' = <<>>
    /\ meeting_i' = 0
    /\ caller' = "listing"
    /\ attempt' = 0
    /\ responses' = <<>>
    /\ data' = "unset"
    /\ fpc' = "request"
    /\ UNCHANGED <<source, resume, all_hearings, completed, part,
                   checkpoint_file, yaml_output, crashes, saves_done,
                   interrupted_after_save, loaded, held, listing_failed,
                   mergeVars, dedupVars, cleanupVars, votesVars, probeVars>>

\* a loop that makes one more attempt: range(max_retries + 1)
RequestAttemptMutExtra ==
    /\ fpc = "request"
    /\ attempt <= max_retries
    /\ \E status \in Statuses :
          /\ responses' = Append(responses, status)
          /\ IF status = "ok"
             THEN data' = "json" /\ fpc' = "returned" /\ UNCHANGED attempt
             ELSE attempt' = attempt + 1 /\ UNCHANGED <<data, fpc>>
    /\ UNCHANGED <<source, resume, all_hearings, completed, part,
                   checkpoint_file, yaml_output, crashes, saves_done,
                   interrupted_after_save, requests, loaded, held,
                   offset, caller, all_items, meeting_i, fetched, listing_failed,
                   mergeVars, dedupVars, cleanupVars, votesVars, probeVars>>

\* lines 95-113, one pass of "for attempt in range(max_retries)": the
\* document is returned (line 108); status 429 (lines 100-105) and a
\* RequestException (lines 110-113) lead to the next pass
RequestAttempt ==
    /\ fpc = "request"
    /\ attempt < max_retries
    /\ \E status \in Statuses :
          /\ responses' = Append(responses, status)
          /\ IF status = "ok"
             THEN data' = "json" /\ fpc' = "returned" /\ UNCHANGED attempt
             ELSE attempt' = attempt + 1 /\ UNCHANGED <<data, fpc>>
    /\ UNCHANGED <<source, resume, all_hearings, completed, part,
                   checkpoint_file, yaml_output, crashes, saves_done,
                   interrupted_after_save, requests, loaded, held,
                   offset, caller, all_items, meeting_i, fetched, listing_failed,
                   mergeVars, dedupVars, cleanupVars, votesVars, probeVars>>

\* line 115: the loop is exhausted, return None
RequestGivesUp ==
    /\ fpc = "request"
    /\ attempt = max_retries
    /\ data' = "none"
    /\ fpc' = "returned"
    /\ UNCHANGED <<source, resume, all_hearings, completed, part,
                   checkpoint_file, yaml_output, crashes, saves_done,
                   interrupted_after_save, requests, loaded, held,
                   offset, attempt, caller, all_items, meeting_i, fetched,
                   responses, listing_failed,
                   mergeVars, dedupVars, cleanupVars, votesVars, probeVars>>

\* lines 129-149 with the value fetch_with_retry returned for a page: no
\* data or no item ends the loop, as does the last page; otherwise the
\* items are added and the next page is requested (lines 147 and 128)
ListingPage ==
    /\ fpc = "returned"
    /\ caller = "listing"
    /\ LET total == Len(source[part])
           last == IF offset + limit < total THEN offset + limit ELSE total
           items == IF data = "json" THEN SubSeq(source[part], offset + 1, last)
                    ELSE <<>>
           got == all_items \o items
       IN /\ all_items' = got
          /\ listing_failed' = IF data = "none" THEN listing_failed \cup {part}
                               ELSE listing_failed
          /\ IF items # <<>> /\ Len(got) < total
             THEN /\ offset' = offset + limit
                  /\ fpc' = "request"
                  /\ UNCHANGED caller
             ELSE /\ offset' = 0
                  /\ fpc' = "meetings"
                  /\ caller' = "none"
    /\ attempt' = 0
    /\ responses' = <<>>
    /\ data' = "unset"
    /\ UNCHANGED <<source, resume, all_hearings, completed, part,
                   checkpoint_file, yaml_output, crashes, saves_done,
                   interrupted_after_save, requests, loaded, held,
                   meeting_i, fetched,
                   mergeVars, dedupVars, cleanupVars, votesVars, probeVars>>

\* lines 573-584 for the next meeting of the listing: fetch_meeting_details
\* calls fetch_with_retry (line 155)
MeetingDetails ==
    /\ fpc = "meetings"
    /\ meeting_i < Len(all_items)
    /\ caller' = "details"
    /\ fpc' = "request"
    /\ UNCHANGED <<source, resume, all_hearings, completed, part,
                   checkpoint_file, yaml_output, crashes, saves_done,
                   interrupted_after_save, requests, loaded, held,
                   offset, attempt, data, all_items, meeting_i, fetched,
                   responses, listing_failed,
                   mergeVars, dedupVars, cleanupVars, votesVars, probeVars>>

\* lines 586-589: the Hearing is built with the details or, without them,
\* from the entry of the listing, and appended
MeetingParse ==
    /\ fpc = "returned"
    /\ caller = "details"
    /\ LET meeting == all_items[meeting_i + 1]
           hearing == IF data = "json" THEN meeting ELSE FromListing(meeting)
       IN fetched' = Append(fetched, hearing)
    /\ meeting_i' = meeting_i + 1
    /\ caller' = "none"
    /\ attempt' = 0
    /\ responses' = <<>>
    /\ data' = "unset"
    /\ fpc' = "meetings"
    /\ UNCHANGED <<source, resume, all_hearings, completed, part,
                   checkpoint_file, yaml_output, crashes, saves_done,
                   interrupted_after_save, requests, loaded, held,
                   offset, all_items, listing_failed,
                   mergeVars, dedupVars, cleanupVars, votesVars, probeVars>>

\* line 591 and lines 485-487: the hearings of the partition are returned,
\* added to all_hearings, and the partition is marked completed
PartitionFetched ==
    /\ fpc = "meetings"
    /\ meeting_i = Len(all_items)
    /\ all_hearings' = all_hearings \o fetched
    /\ completed' = Append(completed, [ kind |-> "tuple",
                                        c0 |-> Partitions[part][1],
                                        c1 |-> Partitions[part][2] ])
    /\ all_items' = <<>>
    /\ meeting_i' = 0
    /\ fetched' = <<>>
    /\ fpc' = "checkpoint_open"
    /\ UNCHANGED <<source, resume, part, checkpoint_file, yaml_output,
                   crashes, saves_done, interrupted_after_save,
                   requests, loaded, held,
                   offset, attempt, data, caller, responses, listing_failed,
                   mergeVars, dedupVars, cleanupVars, votesVars, probeVars>>

\* a fresh run in which the writes of the files succeed and nothing
\* interrupts: the test of line 477 is false for every partition
NextRetry ==
    \/ FetchStartFresh
    \/ ListingStart \/ RequestAttempt \/ RequestGivesUp \/ ListingPage
    \/ MeetingDetails \/ MeetingParse \/ PartitionFetched
    \/ SaveCheckpointOpen \/ SaveCheckpointDump
    \/ SaveYamlOpen \/ SaveYamlDump \/ SaveYamlFinal
    \/ RemoveCheckpoint

SpecRetry == InitRetry /\ [][NextRetry]_vars

\* the process goes on with its next statement, and a dump it has begun
\* comes to its end (SaveYamlDump and SaveYamlFinal are enabled wherever
\* fpc is at a dump)
SpecRetryFair ==
    /\ SpecRetry
    /\ WF_vars(\/ FetchStartFresh
               \/ ListingStart \/ RequestAttempt \/ RequestGivesUp \/ ListingPage
               \/ MeetingDetails \/ MeetingParse \/ PartitionFetched
               \/ SaveCheckpointOpen \/ SaveCheckpointDump
               \/ SaveYamlOpen \/ RemoveCheckpoint)
    /\ []<>(fpc \notin {"yaml_dump", "final_dump"})

----------------------------------------------------------------------------
(* SpecVotes: one run of the votes fetcher.  The worker threads of the     *)
(* executor process the votes of a batch; the main thread takes the        *)
(* results as they complete, appends them to all_votes and saves.          *)

\* the batches of a run: the votes of a congress of the House (line 642),
\* then those of a session of the Senate (line 645)
NumBatches == Len(Chambers)
VotesPerBatch == 3
MaxWorkers == 2
SaveEvery == 2

Futures == 1..VotesPerBatch

\* the roll call number of the vote future f of batch b works on
VoteNumber(b, f) == (b - 1) * VotesPerBatch + f

\* the CongressionalVote a worker returns for the vote with roll call
\* number n: the votes of a batch are not all of one day
VoteOf(n) ==
    [ vote_id |-> n, date |-> IF n % 2 = 1 THEN Date2021 ELSE Date2022 ]

\* sorted(votes, key=lambda v: v.date, reverse=True)
save_to_yaml_sorted(votes) ==
    sorted_reverse([i \in 1..Len(votes) |-> [k |-> votes[i].date, x |-> votes[i]]])

Submitted == [f \in Futures |-> "pending"]

Returned == {"vote", "none", "error"}

InitVotes ==
    /\ future = Submitted
    /\ consumed = {}
    /\ batch = 1
    /\ all_votes = <<>>
    /\ processed = 0
    /\ last_save_count = 0
    /\ vpc = "loop"
    /\ vret = "loop"
    /\ votes_sorted = <<>>
    /\ total_votes = 0
    /\ votes_output = NoVotesFile
    /\ MergeIdle
    /\ DedupIdle
    /\ CleanupIdle
    /\ FetchIdle
    /\ RetryIdle
    /\ ProbeIdle

\* a thread of the pool (max_workers) takes a submitted call of
\* process_house_vote or process_senate_vote
WorkerStart(f) ==
    /\ vpc \notin {"idle", "done", "exited"}
    /\ future[f] = "pending"
    /\ Cardinality({g \in Futures : future[g] = "running"}) < MaxWorkers
    /\ future' = [future EXCEPT ![f] = "running"]
    /\ UNCHANGED <<consumed, batch, all_votes, processed, last_save_count,
                   vpc, vret, votes_sorted, total_votes, votes_output,
                   mergeVars, dedupVars, cleanupVars, fetchVars,
                   retryVars, probeVars>>

\* a worker that appends what it built to the shared list itself
WorkerFinishMutAppend(f) ==
    /\ future[f] = "running"
    /\ \E r \in Returned :
          /\ future' = [future EXCEPT ![f] = r]
          /\ all_votes' = IF r = "vote"
                          THEN Append(all_votes, VoteOf(VoteNumber(batch, f)))
                          ELSE all_votes
    /\ UNCHANGED <<consumed, batch, processed, last_save_count,
                   vpc, vret, votes_sorted, total_votes, votes_output,
                   mergeVars, dedupVars, cleanupVars, fetchVars,
                   retryVars, probeVars>>

\* lines 272-358 and 448-520: the call returns a CongressionalVote, returns
\* None (a vote out of the date range, no detail) or raises
WorkerFinish(f) ==
    /\ future[f] = "running"
    /\ \E r \in Returned : future' = [future EXCEPT ![f] = r]
    /\ UNCHANGED <<consumed, batch, all_votes, processed, last_save_count,
                   vpc, vret, votes_sorted, total_votes, votes_output,
                   mergeVars, dedupVars, cleanupVars, fetchVars,
                   retryVars, probeVars>>

\* lines 415-427 (House) and 560-572 (Senate): one turn of the loop over
\* as_completed(futures), up to the call of save_callback; the result of
\* the future is taken and not read again
VotesTake(f) ==
    /\ vpc = "loop"
    /\ f \notin consumed
    /\ future[f] \in Returned
    /\ consumed' = consumed \cup {f}
    /\ processed' = processed + 1
    /\ all_votes' = IF future[f] = "vote"
                    THEN Append(all_votes, VoteOf(VoteNumber(batch, f)))
                    ELSE all_votes
    /\ vpc' = IF future[f] # "error" /\ (processed + 1) % SaveEvery = 0
              THEN "callback" ELSE "loop"
    /\ vret' = "loop"
    /\ future' = [future EXCEPT ![f] = "taken"]
    /\ UNCHANGED <<batch, last_save_count,
                   votes_sorted, total_votes, votes_output,
                   mergeVars, dedupVars, cleanupVars, fetchVars,
                   retryVars, probeVars>>

\* lines 429 and 574: the loop is over, save_callback is called
VotesLoopEnd ==
    /\ vpc = "loop"
    /\ consumed = Futures
    /\ vpc' = "callback"
    /\ vret' = "batch_end"
    /\ UNCHANGED <<future, consumed, batch, all_votes, processed, last_save_count,
                   votes_sorted, total_votes, votes_output,
                   mergeVars, dedupVars, cleanupVars, fetchVars,
                   retryVars, probeVars>>

\* lines 634-637: save_progress saves when votes were added since it last did
SaveProgress ==
    /\ vpc = "callback"
    /\ vpc' = IF Len(all_votes) > last_save_count THEN "save_sort" ELSE vret
    /\ UNCHANGED <<future, consumed, batch, all_votes, processed, last_save_count,
                   vret, votes_sorted, total_votes, votes_output,
                   mergeVars, dedupVars, cleanupVars, fetchVars,
                   retryVars, probeVars>>

\* lines 582-583 of save_to_yaml: the list is read and sorted
SaveToYamlSort ==
    /\ vpc = "save_sort"
    /\ votes_sorted' = save_to_yaml_sorted(all_votes)
    /\ vpc' = "save_meta"
    /\ UNCHANGED <<future, consumed, batch, all_votes, processed, last_save_count,
                   vret, total_votes, votes_output,
                   mergeVars, dedupVars, cleanupVars, fetchVars,
                   retryVars, probeVars>>

\* lines 585-598: the metadata are computed from the list itself
SaveToYamlMetadata ==
    /\ vpc = "save_meta"
    /\ total_votes' = Len(all_votes)
    /\ vpc' = "save_open"
    /\ UNCHANGED <<future, consumed, batch, all_votes, processed, last_save_count,
                   vret, votes_sorted, votes_output,
                   mergeVars, dedupVars, cleanupVars, fetchVars,
                   retryVars, probeVars>>

\* line 600: open(output_path, "w")
SaveToYamlOpen ==
    /\ vpc = "save_open"
    /\ votes_output' = VotesFileTruncated
    /\ vpc' = "save_dump"
    /\ UNCHANGED <<future, consumed, batch, all_votes, processed, last_save_count,
                   vret, votes_sorted, total_votes,
                   mergeVars, dedupVars, cleanupVars, fetchVars,
                   retryVars, probeVars>>

\* line 601 and the return, where the locals of save_to_yaml end: to
\* save_progress (line 638) and the loop, to the end of main (line 650) or
\* to sys.exit(1) (line 660)
SaveToYamlDump ==
    /\ vpc = "save_dump"
    /\ votes_output' = [ state |-> "valid", total_votes |-> total_votes,
                         votes |-> votes_sorted ]
    /\ last_save_count' = IF vret \in {"loop", "batch_end"}
                          THEN Len(all_votes) ELSE last_save_count
    /\ vpc' = CASE vret = "final" -> "done"
                [] vret = "exit" -> "exited"
                [] OTHER -> vret
    /\ votes_sorted' = <<>>
    /\ total_votes' = 0
    /\ UNCHANGED <<future, consumed, batch, all_votes, processed, vret,
                   mergeVars, dedupVars, cleanupVars, fetchVars,
                   retryVars, probeVars>>

\* lines 376-413 and 522-558: the next congress or session, its votes
\* submitted to a new executor
VotesNextBatch ==
    /\ vpc = "batch_end"
    /\ batch < NumBatches
    /\ batch' = batch + 1
    /\ future' = Submitted
    /\ consumed' = {}
    /\ processed' = 0
    /\ vpc' = "loop"
    /\ UNCHANGED <<all_votes, last_save_count, vret, votes_sorted, total_votes,
                   votes_output, mergeVars, dedupVars, cleanupVars, fetchVars,
                   retryVars, probeVars>>

\* line 648: the final save, after the last batch
VotesFinalSave ==
    /\ vpc = "batch_end"
    /\ batch = NumBatches
    /\ vpc' = "save_sort"
    /\ vret' = "final"
    /\ UNCHANGED <<future, consumed, batch, all_votes, processed, last_save_count,
                   votes_sorted, total_votes, votes_output,
                   mergeVars, dedupVars, cleanupVars, fetchVars,
                   retryVars, probeVars>>

\* KeyboardInterrupt in the main thread, anywhere in the try block of main
\* (lines 640-654): the with block of the executor is left
VotesInterrupt ==
    /\ vpc \in {"loop", "callback", "batch_end",
                "save_sort", "save_meta", "save_open", "save_dump"}
    /\ vret # "exit"
    /\ vpc' = "shutdown"
    /\ UNCHANGED <<future, consumed, batch, all_votes, processed, last_save_count,
                   vret, votes_sorted, total_votes, votes_output,
                   mergeVars, dedupVars, cleanupVars, fetchVars,
                   retryVars, probeVars>>

\* ThreadPoolExecutor.__exit__ waits for the submitted calls, then the
\* exception reaches line 656
VotesShutdown ==
    /\ vpc = "shutdown"
    /\ \A f \in Futures : future[f] \in Returned \cup {"taken"}
    /\ vpc' = "handler"
    /\ UNCHANGED <<future, consumed, batch, all_votes, processed, last_save_count,
                   vret, votes_sorted, total_votes, votes_output,
                   mergeVars, dedupVars, cleanupVars, fetchVars,
                   retryVars, probeVars>>

\* lines 656-660: the final save of the handler when there are votes
VotesHandler ==
    /\ vpc = "handler"
    /\ vpc' = IF all_votes # <<>> THEN "save_sort" ELSE "exited"
    /\ vret' = "exit"
    /\ UNCHANGED <<future, consumed, batch, all_votes, processed, last_save_count,
                   votes_sorted, total_votes, votes_output,
                   mergeVars, dedupVars, cleanupVars, fetchVars,
                   retryVars, probeVars>>

NextVotes ==
    \/ \E f \in Futures : WorkerStart(f)
    \/ \E f \in Futures : WorkerFinish(f)
    \/ \E f \in Futures : VotesTake(f)
    \/ VotesLoopEnd
    \/ SaveProgress
    \/ SaveToYamlSort \/ SaveToYamlMetadata \/ SaveToYamlOpen \/ SaveToYamlDump
    \/ VotesNextBatch \/ VotesFinalSave
    \/ VotesInterrupt \/ VotesShutdown \/ VotesHandler

SpecVotes == InitVotes /\ [][NextVotes]_vars

----------------------------------------------------------------------------
(* SpecProbe: the discovery of the vote numbers of one Senate session in    *)
(* fetch_senate_votes_live, one loop iteration at a time, and the           *)
(* submission of the votes found to the executor.                           *)

MaxLastVote == 205

probe_step == 100

\* fetcher.get_vote_xml(congress, session, n) is not None, when every probe
\* answers correctly: the site holds the XML of the votes 1..last_vote
VoteXmlExists(n) == n \in 1..last_vote

InitProbe ==
    /\ last_vote \in 1..MaxLastVote
    /\ max_vote = 1
    /\ low = 0
    /\ high = 0
    /\ vote_num = 0
    /\ submitted = <<>>
    /\ ppc = "probe"
    /\ MergeIdle
    /\ DedupIdle
    /\ CleanupIdle
    /\ FetchIdle
    /\ VotesIdle
    /\ RetryIdle

\* lines 528-532, one pass of "while True", and line 535 after the break
ProbeStep ==
    /\ ppc = "probe"
    /\ IF VoteXmlExists(max_vote + probe_step)
       THEN /\ max_vote' = max_vote + probe_step
            /\ UNCHANGED <<low, high, ppc>>
       ELSE /\ low' = max_vote
            /\ high' = max_vote + probe_step
            /\ ppc' = "search"
            /\ UNCHANGED max_vote
    /\ UNCHANGED <<last_vote, vote_num, submitted,
                   mergeVars, dedupVars, cleanupVars, fetchVars, votesVars,
                   retryVars>>

\* a binary search that goes on above a vote it found
SearchStepMutSkip ==
    /\ ppc = "search"
    /\ low < high
    /\ LET mid == (low + high + 1) \div 2 IN
       IF VoteXmlExists(mid)
       THEN low' = mid + 1 /\ UNCHANGED high
       ELSE high' = mid - 1 /\ UNCHANGED low
    /\ UNCHANGED <<last_vote, max_vote, vote_num, submitted, ppc,
                   mergeVars, dedupVars, cleanupVars, fetchVars, votesVars,
                   retryVars>>

\* lines 536-541, one pass of "while low < high"
SearchStep ==
    /\ ppc = "search"
    /\ low < high
    /\ LET mid == (low + high + 1) \div 2 IN
       IF VoteXmlExists(mid)
       THEN low' = mid /\ UNCHANGED high
       ELSE high' = mid - 1 /\ UNCHANGED low
    /\ UNCHANGED <<last_vote, max_vote, vote_num, submitted, ppc,
                   mergeVars, dedupVars, cleanupVars, fetchVars, votesVars,
                   retryVars>>

\* lines 542-546 and 554-556: the search is over; no vote, or the first
\* vote_num of range(1, max_vote + 1)
SearchEnd ==
    /\ ppc = "search"
    /\ low >= high
    /\ max_vote' = low
    /\ IF low < 1
       THEN ppc' = "done" /\ UNCHANGED vote_num
       ELSE ppc' = "submit" /\ vote_num' = 1
    /\ UNCHANGED <<last_vote, low, high, submitted,
                   mergeVars, dedupVars, cleanupVars, fetchVars, votesVars,
                   retryVars>>

\* lines 556-558: executor.submit(process_senate_vote, ...) for vote_num
SubmitVote ==
    /\ ppc = "submit"
    /\ vote_num <= max_vote
    /\ submitted' = Append(submitted, vote_num)
    /\ vote_num' = vote_num + 1
    /\ UNCHANGED <<last_vote, max_vote, low, high, ppc,
                   mergeVars, dedupVars, cleanupVars, fetchVars, votesVars,
                   retryVars>>

\* range(1, max_vote + 1) is exhausted
SubmitEnd ==
    /\ ppc = "submit"
    /\ vote_num > max_vote
    /\ ppc' = "done"
    /\ UNCHANGED <<last_vote, max_vote, low, high, vote_num, submitted,
                   mergeVars, dedupVars, cleanupVars, fetchVars, votesVars,
                   retryVars>>

NextProbe == ProbeStep \/ SearchStep \/ SearchEnd \/ SubmitVote \/ SubmitEnd

SpecProbe == InitProbe /\ [][NextProbe]_vars

\* the main thread goes on with its next statement
SpecProbeFair == SpecProbe /\ WF_vars(NextProbe)

----------------------------------------------------------------------------
(* Properties of merge_hearings (SpecMerge) *)

Max(a, b) == IF a >= b THEN a ELSE b
IsScalar(x) == x.t \in {"str", "int"}
SameKey(a, b) == get_hearing_key(a) = get_hearing_key(b)

\* C4: completeness monotonicity.  For hearings with equal identity key the
\* score of merge_hearings(primary, secondary) is at least the larger of the
\* two scores, also when primary holds a blank string or an empty list where
\* secondary holds a populated value.
C4_CompletenessMonotone ==
    (mpc = "returned" /\ SameKey(primary, secondary)) =>
        count_non_null_fields(merged) >=
            Max(count_non_null_fields(primary), count_non_null_fields(secondary))

\* C6: scalar precedence.  A field in which primary holds a non-null scalar
\* keeps primary's value whatever secondary holds; a field absent or null in
\* primary and present in secondary takes secondary's value.
C6_ScalarPrecedence ==
    mpc = "returned" =>
        /\ \A f \in DOMAIN primary :
              IsScalar(primary[f]) => (f \in DOMAIN merged /\ merged[f] = primary[f])
        /\ \A f \in DOMAIN secondary :
              (f \notin DOMAIN primary \/ IsNone(primary[f]))
                  => (f \in DOMAIN merged /\ merged[f] = secondary[f])

\* both hold different non-null scalars in one field, and a field that is
\* null in primary is populated in secondary
C6_Witness ==
    /\ mpc = "returned"
    /\ "location" \in DOMAIN primary \cap DOMAIN secondary
    /\ primary["location"] = Str(<<"A">>)
    /\ secondary["location"] = Str(<<"B">>)
    /\ "witnesses" \in DOMAIN primary \cap DOMAIN secondary
    /\ IsNone(primary["witnesses"])
    /\ secondary["witnesses"] = Num(7)
    /\ merged["location"] = Str(<<"A">>)

\* C7: list-length policy.  A field that is a list in both records holds
\* secondary's list exactly when that list is strictly longer than
\* primary's; on equal lengths it holds primary's list.
C7_ListLengthPolicy ==
    mpc = "returned" =>
        \A f \in DOMAIN primary \cap DOMAIN secondary :
            (IsList(primary[f]) /\ IsList(secondary[f])) =>
                /\ f \in DOMAIN merged
                /\ Len(secondary[f].v) > Len(primary[f].v) => merged[f] = secondary[f]
                /\ Len(secondary[f].v) <= Len(primary[f].v) => merged[f] = primary[f]

\* two lists of equal length and different elements
C7_Witness ==
    /\ mpc = "returned"
    /\ "witnesses" \in DOMAIN primary \cap DOMAIN secondary
    /\ primary["witnesses"] = List(<<"x">>)
    /\ secondary["witnesses"] = List(<<"y">>)
    /\ merged["witnesses"] = List(<<"x">>)

\* C8: idempotence.  merge_hearings(a, a) has the fields of a and the values
\* of a, null values included.
C8_MergeIdempotent ==
    (mpc = "returned" /\ primary = secondary) => merged = primary

\* a hearing merged with itself that holds a null field and a list
C8_Witness ==
    /\ mpc = "returned"
    /\ primary = secondary
    /\ DOMAIN primary = {"title", "location", "witnesses"}
    /\ IsNone(primary["location"])
    /\ primary["witnesses"] = List(<<"x", "y">>)
    /\ merged = primary

----------------------------------------------------------------------------
(* Properties of deduplicate_hearings (SpecDedup) *)

InputKeys == { get_hearing_key(hearings[i]) : i \in 1..Len(hearings) }

\* C1: dedup cardinality.  Every identity key of the input occurs exactly
\* once in the list returned, no other key occurs in it, and
\* duplicates_found is len(input) minus the number of distinct input keys.
C1_DedupCardinality ==
    dpc = "returned" =>
        /\ \A k \in InputKeys :
              Cardinality({i \in 1..Len(deduped) : get_hearing_key(deduped[i]) = k}) = 1
        /\ \A i \in 1..Len(deduped) : get_hearing_key(deduped[i]) \in InputKeys
        /\ duplicates_found = Len(hearings) - Cardinality(InputKeys)

\* three hearings of two keys: one duplicate was merged
C1_Witness ==
    /\ dpc = "returned"
    /\ Len(hearings) = 3
    /\ Cardinality(InputKeys) = 2
    /\ Len(deduped) = 2
    /\ duplicates_found = 1

KeyFields == {"title", "date", "congress", "chamber", "committee", "subcommittee"}

\* a and b differ only in that one identifying field is null in a and
\* absent in b
NullAbsentTwins(a, b) ==
    \E f \in KeyFields :
        /\ f \in DOMAIN a
        /\ IsNone(a[f])
        /\ DOMAIN b = DOMAIN a \ {f}
        /\ \A g \in DOMAIN b : a[g] = b[g]

\* C5: null and absent are normalised to the same default.  Two hearings
\* that differ only in that an identifying field is null in one and absent
\* in the other have equal keys, and deduplicate_hearings collapses them.
C5_NullAbsentSameKey ==
    \A i, j \in 1..Len(hearings) :
        NullAbsentTwins(hearings[i], hearings[j]) =>
            /\ SameKey(hearings[i], hearings[j])
            /\ (dpc = "returned" /\ Len(hearings) = 2) => Len(deduped) = 1

\* C9: on a key already stored, the record with the higher score is the
\* primary of the merge, the incoming score being compared with the score
\* the stored (possibly merged) record has now, and the stored record is
\* primary on equal scores; so a field in which both hold different non-null
\* scalars gets the value of the higher-scoring record.
C9_HigherScorePrimary ==
    [][ (hearings' # hearings /\ HasKey(seen, get_hearing_key(hearings'[Len(hearings')]))) =>
          LET incoming == hearings'[Len(hearings')]
              i == IndexOfKey(seen, get_hearing_key(incoming))
              stored == seen[i].value
              incomingWins == count_non_null_fields(incoming) > count_non_null_fields(stored)
              hi == IF incomingWins THEN incoming ELSE stored
              lo == IF incomingWins THEN stored ELSE incoming
          IN /\ Len(seen') = Len(seen)
             /\ seen'[i].value = merge_hearings(hi, lo)
             /\ \A f \in DOMAIN incoming \cap DOMAIN stored :
                   (IsScalar(incoming[f]) /\ IsScalar(stored[f]))
                       => seen'[i].value[f] = hi[f] ]_vars

\* three hearings of one key: the second outscores the first and the two
\* merge into a record of score 4; the third outscores the first record
\* stored but not the merged one, and has another location: the stored
\* record stays primary and keeps its location
C9_Witness ==
    /\ Len(hearings) = 3
    /\ Cardinality(InputKeys) = 1
    /\ count_non_null_fields(hearings[1]) = 2
    /\ count_non_null_fields(hearings[2]) = 3
    /\ count_non_null_fields(deduplicate_hearings(SubSeq(hearings, 1, 2))[1]) = 4
    /\ count_non_null_fields(hearings[3]) = 3
    /\ "location" \in DOMAIN hearings[2] \cap DOMAIN hearings[3]
    /\ hearings[2]["location"] # hearings[3]["location"]
    /\ Len(seen) = 1
    /\ seen[1].value["location"] = hearings[2]["location"]

----------------------------------------------------------------------------
(* Properties of the clean-up run (Spec) *)

NoTwoWithEqualKey(hs) ==
    \A i, j \in 1..Len(hs) : SameKey(hs[i], hs[j]) => i = j

\* C2 as stated: every snapshot the clean-up tool writes, whatever the input
\* files and whatever the --merge and --no-dedup options, holds no two
\* hearings with equal identity key.
C2_SnapshotNoDuplicateKeys ==
    output_file.exists => NoTwoWithEqualKey(output_file.hearings)

\* C2 amended: every snapshot written by a run without --no-dedup holds no
\* two hearings with equal identity key.
C2_SnapshotNoDuplicateKeysUnlessNoDedup ==
    (output_file.exists /\ ~args.no_dedup) => NoTwoWithEqualKey(output_file.hearings)

\* a merging run whose primary file holds the same meeting twice wrote a
\* snapshot with fewer hearings
C2_Witness ==
    /\ cpc = "done"
    /\ output_file.exists
    /\ args.merge
    /\ ~args.no_dedup
    /\ Len(input_file) = 2
    /\ SameKey(input_file[1], input_file[2])
    /\ Len(merge_file) = 2
    /\ ~SameKey(merge_file[1], input_file[1])
    /\ Len(output_file.hearings) < Len(input_file) + 1

C10_InPrimary(h) ==
    \E i \in 1..Len(input_file) : SameKey(input_file[i], h)

C10_OnlyInSecondary(h) == ~C10_InPrimary(h)

C10_InSecondary(h) ==
    \E j \in 1..Len(merge_file) : SameKey(merge_file[j], h)

\* C10: cross-file merge.  merge_yaml_files returns, in the order of the
\* primary file, one entry per primary hearing: merge_hearings(match,
\* hearing) for a secondary hearing match of the same key when there is one
\* (so the secondary's non-null scalars win and of two lists the longer),
\* the primary hearing itself otherwise; then every secondary hearing whose
\* key no primary hearing has, as it is; updated_count is the number of
\* primary hearings with a match.
C10_CrossFileMerge ==
    (cpc = "dedup" /\ args.merge) =>
        LET P == input_file
            S == merge_file
            M == main_hearings
        IN /\ Len(M) >= Len(P)
           /\ \A i \in 1..Len(P) :
                 IF C10_InSecondary(P[i])
                 THEN \E j \in 1..Len(S) :
                        /\ SameKey(S[j], P[i])
                        /\ M[i] = merge_hearings(S[j], P[i])
                        /\ \A f \in DOMAIN S[j] :
                              IsScalar(S[j][f]) => M[i][f] = S[j][f]
                        /\ \A f \in DOMAIN S[j] \cap DOMAIN P[i] :
                              (IsList(S[j][f]) /\ IsList(P[i][f])) =>
                                  M[i][f] = IF Len(P[i][f].v) > Len(S[j][f].v)
                                            THEN P[i][f] ELSE S[j][f]
                 ELSE M[i] = P[i]
           /\ SubSeq(M, Len(P) + 1, Len(M)) = SelectSeq(S, C10_OnlyInSecondary)
           /\ updated_count = Cardinality({i \in 1..Len(P) : C10_InSecondary(P[i])})

\* the primary file holds a meeting with one source, the secondary file the
\* same meeting with two sources and a location and a meeting the primary
\* file lacks
C10_Witness ==
    /\ cpc = "dedup"
    /\ args.merge
    /\ Len(input_file) = 1
    /\ Len(merge_file) = 2
    /\ DOMAIN input_file[1] = {"title", "date", "sources"}
    /\ input_file[1]["sources"] = List(<<"s1">>)
    /\ SameKey(merge_file[1], input_file[1])
    /\ ~SameKey(merge_file[2], input_file[1])
    /\ Len(main_hearings) = 2
    /\ Len(main_hearings[1]["sources"].v) = 2
    /\ main_hearings[1]["location"] = Str(<<"L">>)
    /\ main_hearings[2] = merge_file[2]
    /\ updated_count = 1

----------------------------------------------------------------------------
(* Properties of the fetcher runs (SpecFetch) *)

RECURSIVE AllOfSource(_)
AllOfSource(n) == IF n = 0 THEN <<>> ELSE AllOfSource(n - 1) \o source[n]

\* the hearings of the snapshot a run over every partition writes when
\* nothing interrupts it
UninterruptedSnapshot == yaml_content(AllOfSource(Len(Partitions)), TRUE).hearings

KeyCount(hs, k) == Cardinality({i \in 1..Len(hs) : get_hearing_key(hs[i]) = k})

SameEntitiesByKey(a, b) ==
    \A k \in { get_hearing_key(a[i]) : i \in 1..Len(a) }
              \cup { get_hearing_key(b[i]) : i \in 1..Len(b) } :
        KeyCount(a, k) = KeyCount(b, k)

\* a run started with --resume, after a run that was interrupted once it had
\* saved a checkpoint, has ended
ResumedRunEnded ==
    /\ fpc \in {"done", "failed"}
    /\ crashes > 0
    /\ interrupted_after_save
    /\ resume

\* C3: resume correctness.  When a run is interrupted at any point after it
\* saved a checkpoint and the fetcher is started again with --resume, the
\* final snapshot holds the same entities by identity key, none missing and
\* none twice, as the snapshot of an uninterrupted run.
C3_ResumeCorrect ==
    ResumedRunEnded =>
        /\ yaml_output.state = "valid"
        /\ SameEntitiesByKey(yaml_output.hearings, UninterruptedSnapshot)

\* what holds of the code: the same, for the resumed runs that come to
\* their end, which they do when the interruption did not fall between the
\* open and the end of the dump of save_checkpoint
ResumeCorrectFromWholeCheckpoint ==
    (ResumedRunEnded /\ fpc = "done") =>
        /\ yaml_output.state = "valid"
        /\ yaml_output.status = "complete"
        /\ SameEntitiesByKey(yaml_output.hearings, UninterruptedSnapshot)

ResumedFromCheckpoint ==
    /\ ResumedRunEnded
    /\ fpc = "done"
    /\ Len(yaml_output.hearings) = 2
    /\ saves_done = 1

\* the partitions the loop of main has passed: fetched or skipped
Passed(p) == p < part \/ (p = part /\ fpc \in {"checkpoint_open", "checkpoint_dump",
                                                "yaml_open", "yaml_dump"})

\* C11: resume skips what the checkpoint lists.  In a run started with
\* --resume no partition listed in the completed markers of the loaded
\* checkpoint is requested again, and every partition of the run that is not
\* listed is fetched exactly once: never twice, and once when the loop has
\* passed it.
C11_ResumeSkipsCompleted ==
    (resume /\ fpc \notin {"idle", "start", "interrupted"}) =>
        \A p \in 1..Len(Partitions) :
            IF IsCompleted(loaded, Partitions[p])
            THEN requests[p] = 0
            ELSE /\ requests[p] <= 1
                 /\ Passed(p) => requests[p] = 1

\* a resumed run has come to its end: it skipped the partition its
\* checkpoint listed and fetched the other one
C11_Witness ==
    /\ resume
    /\ fpc = "done"
    /\ Len(loaded) = 1
    /\ requests = <<0, 1>>

\* the partitions whose fetch the current run has finished, and the last of them
Finished == {p \in 1..Len(Partitions) : requests[p] > 0}
LastFinished == CHOOSE p \in Finished : \A q \in Finished : q <= p

\* what the API holds for the partitions a checkpoint lists as completed
RECURSIVE ListedEntities(_, _)
ListedEntities(done, n) ==
    IF n = 0 THEN <<>>
    ELSE ListedEntities(done, n - 1)
         \o (IF IsCompleted(done, Partitions[n]) THEN source[n] ELSE <<>>)

\* a run is under way and has saved a checkpoint
RunHasSaved ==
    /\ fpc \in {"loop", "checkpoint_open", "checkpoint_dump",
                "yaml_open", "yaml_dump", "final_dump", "unlink"}
    /\ saves_done > 0

CheckpointOfListed ==
    /\ checkpoint_file.state = "valid"
    /\ \A p \in Finished :
           p # LastFinished => IsCompleted(checkpoint_file.completed, Partitions[p])
    /\ SameEntitiesByKey(checkpoint_file.hearings,
                         hearings_to_dicts(ListedEntities(checkpoint_file.completed,
                                                          Len(Partitions))))

\* C12: the checkpoint is the last save.  At every point of a fetch run that
\* has saved, the checkpoint on disk is a whole document, the one of the last
\* save: it lists every partition whose fetch has finished, except possibly
\* the one finished last, and holds exactly the entities of the partitions it
\* lists, so that a crash loses the work of one partition at most.
C12_CheckpointIsLastSave == RunHasSaved => CheckpointOfListed

\* what holds of the code: the same at every point that is not between the
\* open and the end of the dump of save_checkpoint
CheckpointIsLastSaveOutsideWrite ==
    (RunHasSaved /\ fpc # "checkpoint_dump") => CheckpointOfListed

CheckpointExists == checkpoint_file.state # "absent"

\* the snapshot on disk is the terminal one of the run: whole, with status
\* complete and every hearing the run holds
TerminalSnapshotWritten == yaml_output = yaml_content(all_hearings, TRUE)

\* a run has stopped before its end after it saved a checkpoint
StoppedEarlyAfterSave ==
    /\ fpc \in {"interrupted", "aborted", "failed"}
    /\ saves_done > 0

\* C13: the checkpoint goes away on clean completion only.  The checkpoint
\* file is deleted only after the terminal snapshot with status complete has
\* been written; after a run that reaches clean completion no checkpoint
\* file exists, and after a run that stops earlier, once it has saved, the
\* checkpoint file still exists.
C13_CheckpointDeletedOnCompletion ==
    /\ [][(CheckpointExists /\ ~CheckpointExists') => TerminalSnapshotWritten]_vars
    /\ [](fpc = "done" => ~CheckpointExists)
    /\ [](StoppedEarlyAfterSave => CheckpointExists)

\* a run that saved two checkpoints has ended and removed the file
C13_Witness ==
    /\ fpc = "done"
    /\ saves_done = 2
    /\ ~CheckpointExists
    /\ yaml_output.status = "complete"

----------------------------------------------------------------------------
(* Properties of the snapshots the clean-up tool writes (Spec), continued *)

Digits == {"0", "1", "2", "3", "4", "5", "6", "7", "8", "9"}

\* v is a str of the form YYYY-MM-DD
IsDate(v) ==
    /\ IsStr(v)
    /\ Len(v.v) = 10
    /\ \A i \in 1..10 : IF i \in {5, 8} THEN v.v[i] = "-" ELSE v.v[i] \in Digits

HasValidDate(h) == "date" \in DOMAIN h /\ IsDate(h["date"])

\* C14: the order of a snapshot.  In every snapshot written the entities are
\* in non-increasing order of date, and every entity whose date is missing,
\* null or no YYYY-MM-DD date comes after all the entities with a valid date.
C14_SnapshotDateOrder ==
    output_file.exists =>
        \A i, j \in 1..Len(output_file.hearings) :
            i < j =>
                LET a == output_file.hearings[i]
                    b == output_file.hearings[j]
                IN /\ (HasValidDate(a) /\ HasValidDate(b)) =>
                          ~StrLess(a["date"].v, b["date"].v)
                   /\ HasValidDate(b) => HasValidDate(a)

\* what holds of the code: the snapshot is in non-increasing order of the
\* sort key, which is the date string as it is, or '0000-00-00' for a date
\* that is missing, null or empty
SnapshotInSortKeyOrder ==
    output_file.exists =>
        \A i, j \in 1..Len(output_file.hearings) :
            i < j => ~StrLess(cleanup_sort_key(output_file.hearings[i]).v,
                              cleanup_sort_key(output_file.hearings[j]).v)

----------------------------------------------------------------------------
(* Properties of the fetcher runs (SpecFetch), continued *)

\* a step that ends a write of the snapshot
SnapshotWritten == yaml_output' # yaml_output /\ yaml_output'.state = "valid"

\* the loop of main is over: every partition was fetched by this run or
\* skipped because the loaded checkpoint lists it
AllPartitionsProcessed ==
    /\ part > Len(Partitions)
    /\ \A p \in 1..Len(Partitions) :
           requests[p] = 1 \/ IsCompleted(loaded, Partitions[p])

\* C15: the status of a snapshot.  Every snapshot a fetcher writes before
\* all partitions have been processed has status in_progress; a snapshot
\* with status complete is written only after the last partition has been
\* fetched or skipped, and it holds every accumulated entity.
C15_StatusFollowsProgress ==
    [][SnapshotWritten =>
          /\ ~AllPartitionsProcessed => yaml_output'.status = "in_progress"
          /\ yaml_output'.status = "complete" =>
                /\ AllPartitionsProcessed
                /\ Len(yaml_output'.hearings) = Len(all_hearings)
                /\ SameEntitiesByKey(yaml_output'.hearings,
                                     hearings_to_dicts(all_hearings))]_vars

\* the final snapshot of a run over two partitions, one hearing each, is
\* on disk after an in_progress snapshot for each partition
C15_Witness ==
    /\ fpc = "unlink"
    /\ saves_done = 2
    /\ yaml_output.status = "complete"
    /\ Len(yaml_output.hearings) = 2

\* C16: the snapshot is overwritten atomically.  At no moment of a run, a
\* crash in the middle of a write included, can a reader find the snapshot
\* empty, cut off or partly written.
C16_SnapshotNeverPartial == yaml_output.state # "truncated"

----------------------------------------------------------------------------
(* Properties of the votes fetcher (SpecVotes) *)

\* save_to_yaml is between its first read of the list and the end of its dump
Saving == vpc \in {"save_meta", "save_open", "save_dump"}

\* C17: appends and saves do not overlap.  While the worker threads process
\* votes, no vote is appended to all_votes while a save is reading the list,
\* and every save writes exactly the votes that were appended before it
\* began: the votes it sorted at its start, as many as it counted, all of
\* all_votes.
C17_SaveWritesWhatWasAppended ==
    [][/\ Saving => all_votes' = all_votes
       /\ (votes_output.state = "truncated" /\ votes_output'.state = "valid") =>
             /\ votes_output'.votes = save_to_yaml_sorted(all_votes)
             /\ votes_output'.total_votes = Len(votes_output'.votes)]_vars

\* a save inside the loop is writing two votes while a worker has returned
\* a third that the main thread has not taken yet
C17_Witness ==
    /\ vpc = "save_dump"
    /\ vret = "loop"
    /\ Len(all_votes) = 2
    /\ \E f \in Futures : f \notin consumed /\ future[f] = "vote"

\* what the votes fetcher does on KeyboardInterrupt: the run that exits
\* through the handler leaves a snapshot with every vote of all_votes
VotesInterruptKeepsAccumulated ==
    (vpc = "exited" /\ all_votes # <<>>) =>
        /\ votes_output.state = "valid"
        /\ votes_output.votes = save_to_yaml_sorted(all_votes)

----------------------------------------------------------------------------
(* Properties of the fetcher runs (SpecFetch): interruption and failure *)

\* the hearings on disk, in the snapshot and in the checkpoint
DurableHearings == yaml_output.hearings \o checkpoint_file.hearings

\* C18: a user interrupt loses nothing.  When a fetch run is cancelled by
\* user interrupt at any point, a final write is performed, so that every
\* entity the run had accumulated in memory is in the durable output.
C18_InterruptKeepsAccumulated ==
    fpc = "interrupted" =>
        \A i \in 1..Len(held) :
            \E j \in 1..Len(DurableHearings) :
                get_hearing_key(DurableHearings[j])
                    = get_hearing_key(hearing_to_dict(held[i]))

\* C19: a failed checkpoint write is not fatal.  When a write of the
\* checkpoint fails during a fetch run the run does not abort: it keeps what
\* it holds in memory and goes on to the next partition.  (fpc is "aborted"
\* exactly when an exception of save_checkpoint has ended the run.)
C19_CheckpointFailureNotFatal == fpc # "aborted"

----------------------------------------------------------------------------
(* Properties of the runs of the clean-up tool (Spec): input files *)

\* a file given with --input or --merge is missing, cannot be parsed or
\* has no top-level hearings list
BadInput == input_shape # "ok" \/ (args.merge /\ merge_shape # "ok")

\* C20: a malformed input is fatal.  When a snapshot given to the clean-up
\* tool with --input or --merge is missing, cannot be parsed or lacks the
\* top-level hearings list, the run aborts and the output file is neither
\* written nor modified.
C20_BadInputAborts ==
    BadInput => (cpc # "done" /\ output_file = NoFile)

\* what holds of the code: a file that is missing, that is no YAML or that
\* is no mapping ends the run before anything is written
UnreadableInputAborts ==
    (LoadRaises(input_shape) \/ (args.merge /\ LoadRaises(merge_shape))) =>
        (cpc \in {"load", "aborted"} /\ output_file = NoFile)

----------------------------------------------------------------------------
\* Order of the list returned by deduplicate_hearings

\* the keys of hs in the order in which each occurs first
RECURSIVE FirstOccurrences(_, _)
FirstOccurrences(hs, acc) ==
    IF hs = <<>> THEN acc
    ELSE LET k == get_hearing_key(Head(hs)) IN
         FirstOccurrences(Tail(hs),
             IF \E i \in 1..Len(acc) : acc[i] = k THEN acc ELSE Append(acc, k))

KeysOf(hs) == [i \in 1..Len(hs) |-> get_hearing_key(hs[i])]

\* C24: order of the list returned.  The list deduplicate_hearings returns
\* has the keys in the order of the input position of each key's first
\* occurrence, also when a later duplicate with a higher score replaced the
\* stored record.
C24_FirstOccurrenceOrder ==
    dpc = "returned" => KeysOf(deduped) = FirstOccurrences(hearings, <<>>)

\* keys k1, k2, k1: the third hearing outscores the first and is the primary
\* of the record stored under k1, which stays in front of k2's
C24_Witness ==
    /\ dpc = "returned"
    /\ Len(hearings) = 3
    /\ SameKey(hearings[1], hearings[3])
    /\ ~SameKey(hearings[1], hearings[2])
    /\ count_non_null_fields(hearings[3]) > count_non_null_fields(hearings[1])
    /\ Len(deduped) = 2
    /\ deduped[1] = merge_hearings(hearings[3], hearings[1])
    /\ deduped[2] = hearings[2]

\* C25: count_non_null_fields.  The score of a hearing is the number of its
\* fields that are present in a meaningful way: a null counts 0, a string
\* counts 1 when a character other than whitespace occurs in it, a list
\* counts 1 when it has an element, any other value counts 1; the score is
\* never negative.
MeaningfullyPresent(x) ==
    CASE IsNone(x) -> FALSE
      [] IsStr(x) -> \E i \in 1..Len(x.v) : x.v[i] \notin Whitespace
      [] IsList(x) -> Len(x.v) >= 1
      [] OTHER -> TRUE

C25_ScoreCountsPresentFields ==
    \A h \in {primary, secondary} :
        /\ count_non_null_fields(h) >= 0
        /\ count_non_null_fields(h) =
               Cardinality({f \in DOMAIN h : MeaningfullyPresent(h[f])})

\* a hearing with a title, a blank location and an empty witnesses list
\* scores 1; one with the number 0 as location scores for it
C25_Witness ==
    /\ mpc = "returned"
    /\ DOMAIN primary = {"title", "location", "witnesses"}
    /\ primary["location"] = Str(<<" ">>)
    /\ primary["witnesses"] = List(<<>>)
    /\ count_non_null_fields(primary) = 1
    /\ DOMAIN secondary = {"location", "witnesses"}
    /\ secondary["location"] = Num(0)
    /\ IsNone(secondary["witnesses"])
    /\ count_non_null_fields(secondary) = 1

\* C26: merge_hearings preserves the identity key.  Every record stored by
\* deduplicate_hearings has the key it is stored under, also when the
\* committee-or-subcommittee component comes from committee in one of the
\* merged records and from subcommittee in the other; and the merge of a
\* hearing with a record stored under its key has that key, whichever of
\* the two is the primary (checked for the records stored from one or two
\* hearings, and for every pair of the committee variants).
CommitteeValues == {Absent, Null, Str(<<>>), X, Str(<<"Y">>)}

\* hearings titled T with every combination of committee and subcommittee
CommitteeVariants ==
    { Dict([title |-> Str(<<"T">>), committee |-> c, subcommittee |-> s]) :
        c \in CommitteeValues, s \in CommitteeValues }

C26_MergeKeepsKey ==
    /\ \A i \in 1..Len(seen) : get_hearing_key(seen[i].value) = seen[i].key
    /\ \A i \in 1..Len(deduped) : get_hearing_key(deduped[i]) = seen[i].key
    /\ \A h \in DedupPool : \A i \in 1..Len(seen) :
          (dpc = "loop" /\ Len(hearings) <= 2 /\ seen[i].key = get_hearing_key(h)) =>
              /\ get_hearing_key(merge_hearings(h, seen[i].value)) = seen[i].key
              /\ get_hearing_key(merge_hearings(seen[i].value, h)) = seen[i].key
    /\ hearings = <<>> =>
          \A a, b \in CommitteeVariants :
              SameKey(a, b) => SameKey(merge_hearings(a, b), a)

\* a hearing naming X as committee and one naming X as subcommittee were
\* merged into one record, stored under their key
C26_Witness ==
    /\ Len(hearings) = 2
    /\ Len(seen) = 1
    /\ "committee" \in DOMAIN hearings[1] /\ "subcommittee" \notin DOMAIN hearings[1]
    /\ "subcommittee" \in DOMAIN hearings[2] /\ "committee" \notin DOMAIN hearings[2]
    /\ {"committee", "subcommittee"} \subseteq DOMAIN seen[1].value
    /\ seen[1].key = get_hearing_key(hearings[2])

\* C27: deduplicate_hearings is idempotent.  Deduplicating the list returned
\* gives the same records in the same order, and finds no duplicate.
C27_DedupIdempotent ==
    dpc = "returned" =>
        /\ deduplicate_hearings(deduped) = deduped
        /\ dedup_loop([seen |-> <<>>, duplicates_found |-> 0], deduped).duplicates_found = 0

\* the first pass merged a duplicate and returned two records
C27_Witness ==
    /\ dpc = "returned"
    /\ Len(hearings) = 3
    /\ duplicates_found = 1
    /\ Len(deduped) = 2
    /\ deduplicate_hearings(deduped) = deduped
    /\ deduped # hearings

----------------------------------------------------------------------------
\* The hearings fetcher: what it persists, and the start of a resumed run

\* C22: fetched records are deduplicated before they are persisted.  Every
\* checkpoint and every snapshot the hearings fetcher writes holds at most
\* one hearing per identity key, also when the API lists the same meeting
\* twice within a partition or in two partitions.
C22_PersistedWithoutDuplicates ==
    /\ checkpoint_file.state = "valid" => NoTwoWithEqualKey(checkpoint_file.hearings)
    /\ yaml_output.state = "valid" => NoTwoWithEqualKey(yaml_output.hearings)

\* C23: load_checkpoint without a checkpoint file.  A run started with
\* --resume when no checkpoint file exists does not fail at the load: it
\* starts with no entity and no completed marker, and it fetches every
\* partition of the run, each once.
C23_ResumeWithoutCheckpoint ==
    [][ /\ (fpc = "start" /\ resume /\ checkpoint_file.state = "absent"
               /\ fpc' # "start" /\ crashes' = crashes) =>
            /\ fpc' = "loop"
            /\ all_hearings' = <<>>
            /\ completed' = <<>>
            /\ loaded' = <<>>
        /\ (resume' /\ loaded' = <<>> /\ fpc' \notin {"idle", "start", "interrupted"}) =>
            \A p \in 1..Len(Partitions) :
                /\ requests'[p] <= 1
                /\ (p < part' \/ fpc' = "done") => requests'[p] = 1 ]_vars

\* a run started with --resume and without a checkpoint file (the run before
\* it was interrupted before its first save) has fetched every partition
C23_Witness ==
    /\ resume
    /\ crashes = 1
    /\ ~interrupted_after_save
    /\ loaded = <<>>
    /\ fpc = "done"
    /\ \A p \in 1..Len(Partitions) : requests[p] = 1
    /\ yaml_output.status = "complete"

\* C29: the dict form of a hearing is stable under a round trip.  For every
\* Hearing h, hearing_to_dict(dict_to_hearing(hearing_to_dict(h))) equals
\* hearing_to_dict(h), also when every source of h has an empty url and
\* when members, witnesses or related_bills are empty.
RoundTripStable(h) ==
    hearing_to_dict(dict_to_hearing(hearing_to_dict(h))) = hearing_to_dict(h)

C29_DictRoundTrip ==
    \A i \in 1..Len(all_hearings) : RoundTripStable(all_hearings[i])

\* what holds of the code: the round trip is stable for the hearings with
\* no source at all or with a source that has a url
DictRoundTripWithUrl ==
    \A i \in 1..Len(all_hearings) :
        LET h == all_hearings[i] IN
        (h.sources = <<>> \/ \E j \in 1..Len(h.sources) : HasUrl(h.sources[j]))
            => RoundTripStable(h)

----------------------------------------------------------------------------
\* The discovery of the Senate vote numbers (SpecProbeFair)

\* the vote numbers 1..n in order
UpTo(n) == [i \in 1..n |-> i]

ProbeSafe ==
    /\ ppc = "probe" => (max_vote >= 1 /\ max_vote <= Max(last_vote, 1))
    /\ ppc = "search" => (low <= last_vote /\ last_vote <= high)
    /\ ppc \in {"submit", "done"} => max_vote = last_vote
    /\ submitted = UpTo(Len(submitted))
    /\ Len(submitted) <= last_vote
    /\ ppc = "done" => submitted = UpTo(last_vote)

\* C30: Senate vote-number discovery.  When the vote XML exists exactly for
\* the numbers 1..N, N >= 1, and every probe answers correctly, the step-100
\* probe and the binary search come to an end with max_vote = N, and the
\* vote numbers 1..N are submitted once each and no number above N.
C30_ProbeFindsLastVote ==
    /\ []ProbeSafe
    /\ <>(ppc = "done")

\* N = 150: the probe went up once, to 101, the search ended at 150 and the
\* 150 votes were submitted
C30_Witness ==
    /\ last_vote = 150
    /\ ppc = "done"
    /\ low = 150
    /\ high = 150
    /\ max_vote = 150
    /\ Len(submitted) = 150

----------------------------------------------------------------------------
\* Requests that fail (SpecRetry, SpecRetryFair)

Failing(rs) == \A i \in 1..Len(rs) : rs[i] # "ok"

RetrySafe ==
    /\ Len(responses) <= max_retries
    /\ (fpc = "returned" /\ Failing(responses)) =>
          (data = "none" /\ Len(responses) = max_retries)
    /\ (fpc = "returned" /\ data = "none") => Failing(responses)
    /\ fpc \notin {"failed", "aborted"}
    /\ \A p \in 1..Len(Partitions) :
          (p < part \/ fpc \in {"final_dump", "unlink", "done"}) => requests[p] = 1
    /\ fpc = "done" => (yaml_output.state = "valid" /\ yaml_output.status = "complete")

C28_CompletedOnlyIfFetched ==
    \A p \in listing_failed :
        /\ ~IsCompleted(completed, Partitions[p])
        /\ checkpoint_file.state = "valid" =>
              ~IsCompleted(checkpoint_file.completed, Partitions[p])

====
